---- MODULE Spec2Model ----
(***************************************************************************)
(* Model of the resource-prediction engine of the incident dispatch        *)
(* backend: the row parser, the feature vectorizer, the kNN predictor and  *)
(* the HTTP endpoint that calls it.                                        *)
(*                                                                         *)
(* Text is a sequence of character codes (Unicode code points), so that    *)
(* trimming, lower-casing, parsing and lexicographic sorting are computed. *)
(* A Python float is one of: a finite value, +inf / -inf, NaN.             *)
(***************************************************************************)
EXTENDS Integers, Sequences, FiniteSets, TLC

VARIABLES
    pc,                  \* position of the modelled caller
    rows,                \* the historical dataset (list of row dicts)
    incident,            \* the incident dict handed in by the caller
    k,                   \* the neighbor count handed in by the caller
    tie,                 \* how this build's argsort orders equal keys
    query,               \* the query dict knn_predict was called with
    categorical_levels,  \* the vocabulary last collected
    feature_order,       \* the feature order last built
    vec,                 \* the vector last returned by vectorize_incident
    kn,                  \* knn_predict's locals at the end of the last call
    result,              \* what the last knn_predict call returned or raised
    response,            \* what the last endpoint call answered
    first,               \* what the first knn_predict call on (incident, rows, k) returned
    calls,               \* the knn_predict calls made so far, by the dataset of each
    ui,                  \* the arguments handed to make_query_incident_from_ui
    made,                \* what make_query_incident_from_ui returned or raised
    city_arg,            \* the city handed to infer_state_for_city
    inferred,            \* what the last infer_state_for_city call returned
    min_pool,            \* the min_pool handed to knn_predict
    seen,                \* the inputs of each call on the cached dataset, before and after
    model,               \* the ResourceModel instance
    predictions,         \* what ResourceModel.predict returned
    units,               \* table Unit, as committed
    requests,            \* table ResourceRequest, as committed
    assignment_rows,     \* table RequestAssignment, as committed
    log_entries,         \* table LogEntry, as committed
    row_locks,           \* the rows locked by a transaction in progress, by holder
    clients              \* each client's dispatch_request call: position and locals

\* The variables of the prediction engine's callers.
engineVars == <<pc, rows, incident, k, tie, query, categorical_levels, feature_order,
                vec, kn, result, response, first, calls, ui, made>>

\* The variables of the linear model.
linearVars == <<model, predictions>>

\* The database and the clients of the dispatch endpoint.
dispatchVars == <<units, requests, assignment_rows, log_entries, row_locks, clients>>

vars == <<engineVars, city_arg, inferred, min_pool, seen, linearVars, dispatchVars>>

-----------------------------------------------------------------------------
(* Text *)

\* str.strip() with no argument removes leading and trailing whitespace.
IsSpace(c) == c \in {9, 10, 11, 12, 13, 32}

RECURSIVE LStrip(_)
LStrip(s) ==
    IF s = <<>> THEN <<>>
    ELSE IF IsSpace(Head(s)) THEN LStrip(Tail(s)) ELSE s

RECURSIVE RStrip(_)
RStrip(s) ==
    IF s = <<>> THEN <<>>
    ELSE IF IsSpace(s[Len(s)]) THEN RStrip(SubSeq(s, 1, Len(s) - 1)) ELSE s

Strip(s) == RStrip(LStrip(s))

\* str.lower() on the ASCII letters.
Lower(s) == [i \in 1..Len(s) |-> IF s[i] \in 65..90 THEN s[i] + 32 ELSE s[i]]

\* Python's < on str: code point by code point, a proper prefix is smaller.
RECURSIVE LexLess(_, _)
LexLess(a, b) ==
    IF b = <<>> THEN FALSE
    ELSE IF a = <<>> THEN TRUE
    ELSE IF Head(a) # Head(b) THEN Head(a) < Head(b)
    ELSE LexLess(Tail(a), Tail(b))

IsDigit(c) == c \in 48..57

IsDigits(s) == s # <<>> /\ \A i \in 1..Len(s) : IsDigit(s[i])

RECURSIVE DecVal(_)
DecVal(s) ==
    IF s = <<>> THEN 0
    ELSE 10 * DecVal(SubSeq(s, 1, Len(s) - 1)) + (s[Len(s)] - 48)

-----------------------------------------------------------------------------
(* Python floats *)

Fin(n) == [t |-> "fin", v |-> n]
PosInf == [t |-> "inf", v |-> 1]
NegInf == [t |-> "inf", v |-> -1]
NaN == [t |-> "nan", v |-> 0]
Zero == Fin(0)
One == Fin(1)

IsFin(x) == x.t = "fin"
IsNaN(x) == x.t = "nan"
IsInf(x) == x.t = "inf"

\* a - b
FSub(a, b) ==
    IF IsNaN(a) \/ IsNaN(b) THEN NaN
    ELSE IF IsFin(a) /\ IsFin(b) THEN Fin(a.v - b.v)
    ELSE IF IsInf(a) /\ IsInf(b) THEN (IF a.v = b.v THEN NaN ELSE a)
    ELSE IF IsInf(a) THEN a
    ELSE [t |-> "inf", v |-> 0 - b.v]

\* a + b
FAdd(a, b) ==
    IF IsNaN(a) \/ IsNaN(b) THEN NaN
    ELSE IF IsFin(a) /\ IsFin(b) THEN Fin(a.v + b.v)
    ELSE IF IsInf(a) /\ IsInf(b) THEN (IF a.v = b.v THEN a ELSE NaN)
    ELSE IF IsInf(a) THEN a
    ELSE b

Sign(n) == IF n > 0 THEN 1 ELSE IF n < 0 THEN -1 ELSE 0

\* a * b
FMul(a, b) ==
    IF IsNaN(a) \/ IsNaN(b) THEN NaN
    ELSE IF IsFin(a) /\ IsFin(b) THEN Fin(a.v * b.v)
    ELSE IF Sign(a.v) * Sign(b.v) = 0 THEN NaN
    ELSE [t |-> "inf", v |-> Sign(a.v) * Sign(b.v)]

\* a < b; every comparison with NaN is false.
FLess(a, b) ==
    IF IsNaN(a) \/ IsNaN(b) THEN FALSE
    ELSE IF IsFin(a) /\ IsFin(b) THEN a.v < b.v
    ELSE IF IsInf(a) /\ IsInf(b) THEN a.v < b.v
    ELSE IF IsInf(a) THEN a.v < 0
    ELSE b.v > 0

\* a > 0
FPositive(a) == FLess(Zero, a)

\* floor(sqrt(n)) for 0 <= n < 2^31, by bisection on lo <= sqrt(n) < hi.
RECURSIVE IsqrtIter(_, _, _)
IsqrtIter(n, lo, hi) ==
    IF hi - lo <= 1 THEN lo
    ELSE LET mid == (lo + hi) \div 2
         IN  IF mid * mid <= n THEN IsqrtIter(n, mid, hi) ELSE IsqrtIter(n, lo, mid)

Isqrt(n) == IsqrtIter(n, 0, 46341)

-----------------------------------------------------------------------------
(* Raw field values of a record: text, null, or a number *)

RawStr(s) == [k |-> "str", s |-> s, f |-> Zero]
RawNone == [k |-> "none", s |-> <<>>, f |-> Zero]
RawFloat(x) == [k |-> "float", s |-> <<>>, f |-> x]

\* dict.get(key, default)
Get(d, key, default) == IF key \in DOMAIN d THEN d[key] ELSE default

\* str(value) for text and null: str(None) is the text "None".
PyStr(value) ==
    CASE value.k = "str" -> value.s
      [] value.k = "none" -> <<78, 111, 110, 101>>

-----------------------------------------------------------------------------
(* Row parser *)

\* float(text): surrounding whitespace is ignored; an optional sign, then a
\* decimal integer literal, "inf", "infinity" or "nan" in any letter case.
\* Any other text raises ValueError (FloatOfText.ok is FALSE).  Fractions and
\* exponents are not in the texts the model draws.
FloatOfText(s) ==
    LET t == Lower(Strip(s))
        signed == t # <<>> /\ Head(t) \in {43, 45}
        body == IF signed THEN Tail(t) ELSE t
        sgn == IF signed /\ Head(t) = 45 THEN -1 ELSE 1
    IN  IF IsDigits(body) THEN [ok |-> TRUE, f |-> Fin(sgn * DecVal(body))]
        ELSE IF body \in {<<105, 110, 102>>, <<105, 110, 102, 105, 110, 105, 116, 121>>}
            THEN [ok |-> TRUE, f |-> [t |-> "inf", v |-> sgn]]
        ELSE IF body = <<110, 97, 110>> THEN [ok |-> TRUE, f |-> NaN]
        ELSE [ok |-> FALSE, f |-> Zero]

\* A parse_float whose fallback for unparsable text is NaN instead of 0.0.
parse_float_nan_default(value) ==
    IF value.k = "none" \/ (value.k = "str" /\ value.s = <<>>) THEN Zero
    ELSE IF value.k = "float" THEN value.f
    ELSE LET r == FloatOfText(value.s)
         IN  IF r.ok THEN r.f ELSE NaN

parse_float(value) ==
    IF value.k = "none" \/ (value.k = "str" /\ value.s = <<>>) THEN Zero
    ELSE IF value.k = "float" THEN value.f
    ELSE LET r == FloatOfText(value.s)
         IN  IF r.ok THEN r.f ELSE Zero

\* The literals parse_bool maps to 1.0: "1", "true", "yes", "y".
TrueLiterals == {<<49>>, <<116, 114, 117, 101>>, <<121, 101, 115>>, <<121>>}

\* `value in (True, False)` compares by ==, so the numbers 1 and 0 match it.
\* str() of any other number is never one of the true literals.
parse_bool(value) ==
    IF value.k = "float" THEN (IF value.f = One THEN One ELSE Zero)
    ELSE IF value.k = "none" THEN Zero
    ELSE IF Lower(Strip(value.s)) \in TrueLiterals THEN One
    ELSE Zero

\* str.replace("Z", "+00:00")
RECURSIVE ReplaceZ(_)
ReplaceZ(s) ==
    IF s = <<>> THEN <<>>
    ELSE IF Head(s) = 90 THEN <<43, 48, 48, 58, 48, 48>> \o ReplaceZ(Tail(s))
    ELSE <<Head(s)>> \o ReplaceZ(Tail(s))

\* The two-digit number at positions i, i+1 of s, or -1.
Num2(s, i) ==
    IF i + 1 <= Len(s) /\ IsDigit(s[i]) /\ IsDigit(s[i + 1])
    THEN (s[i] - 48) * 10 + (s[i + 1] - 48)
    ELSE -1

DaysInMonth(y, m) ==
    IF m \in {4, 6, 9, 11} THEN 30
    ELSE IF m # 2 THEN 31
    ELSE IF (y % 4 = 0 /\ y % 100 # 0) \/ y % 400 = 0 THEN 29
    ELSE 28

\* datetime.fromisoformat on YYYY-MM-DD, optionally followed by one separator
\* character and HH:MM:SS, optionally followed by a UTC offset +HH:MM or
\* -HH:MM.  Any other text raises ValueError (ok is FALSE).
FromIsoFormat(s) ==
    LET n == Len(s)
        bad == [ok |-> FALSE, hour |-> 0, month |-> 0]
        year == IF n >= 4 /\ IsDigits(SubSeq(s, 1, 4)) THEN DecVal(SubSeq(s, 1, 4)) ELSE -1
        month == Num2(s, 6)
        day == Num2(s, 9)
        dateOk == /\ n >= 10 /\ s[5] = 45 /\ s[8] = 45
                  /\ year >= 1 /\ month \in 1..12
                  /\ day >= 1 /\ day <= DaysInMonth(year, month)
        hour == Num2(s, 12)
        timeOk == /\ n >= 19 /\ s[14] = 58 /\ s[17] = 58
                  /\ hour \in 0..23 /\ Num2(s, 15) \in 0..59 /\ Num2(s, 18) \in 0..59
        offsetOk == /\ n = 25 /\ s[20] \in {43, 45} /\ s[23] = 58
                    /\ Num2(s, 21) \in 0..23 /\ Num2(s, 24) \in 0..59
    IN  IF ~dateOk THEN bad
        ELSE IF n = 10 THEN [ok |-> TRUE, hour |-> 0, month |-> month]
        ELSE IF timeOk /\ (n = 19 \/ offsetOk) THEN [ok |-> TRUE, hour |-> hour, month |-> month]
        ELSE bad

\* Returns [ok, hour, month]; ok = FALSE stands for None.
parse_datetime(value) ==
    IF \/ value.k = "none"
       \/ (value.k = "str" /\ value.s = <<>>)
       \/ (value.k = "float" /\ value.f = Zero)
    THEN [ok |-> FALSE, hour |-> 0, month |-> 0]
    ELSE IF value.k = "float" THEN [ok |-> FALSE, hour |-> 0, month |-> 0]
    ELSE FromIsoFormat(ReplaceZ(value.s))

\* <<hour, month>>
derive_time_features(row) ==
    LET start == parse_datetime(Get(row, "start_time", RawNone))
    IN  IF ~start.ok THEN <<Zero, Zero>>
        ELSE <<Fin(start.hour), Fin(start.month)>>

-----------------------------------------------------------------------------
(* Feature schema *)

NUMERIC_FEATURES ==
    << "severity_1_5", "duration_hours", "population_affected_est", "injuries_est",
       "fatalities_est", "structures_threatened", "structures_damaged", "acres_burned",
       "wind_mph", "precip_inches", "temperature_f", "evacuation_order_issued",
       "evac_population_est", "hospital_diversion_flag", "start_hour", "start_month" >>

CATEGORICAL_FEATURES == << "incident_category", "incident_subtype", "city", "state" >>

TARGET_FIELDS == << "firetrucks_dispatched_engines", "ambulances_dispatched" >>

Range(s) == {s[i] : i \in 1..Len(s)}

\* A column name.  A numeric column is named by its feature; a one-hot column
\* by f"{feature}__{level}".  No categorical feature name is a prefix of
\* another and no numeric name contains "__", so the formatted name
\* determines the pair (feature, level): the pair stands for the name.
NumCol(feature) == [feature |-> feature, level |-> <<>>, onehot |-> FALSE]
CatCol(feature, level) == [feature |-> feature, level |-> level, onehot |-> TRUE]

\* The text of each feature name.
FeatureText ==
    [severity_1_5 |-> <<115, 101, 118, 101, 114, 105, 116, 121, 95, 49, 95, 53>>,
     duration_hours |-> <<100, 117, 114, 97, 116, 105, 111, 110, 95, 104, 111, 117, 114, 115>>,
     population_affected_est |-> <<112, 111, 112, 117, 108, 97, 116, 105, 111, 110, 95, 97, 102, 102, 101, 99, 116, 101, 100, 95, 101, 115, 116>>,
     injuries_est |-> <<105, 110, 106, 117, 114, 105, 101, 115, 95, 101, 115, 116>>,
     fatalities_est |-> <<102, 97, 116, 97, 108, 105, 116, 105, 101, 115, 95, 101, 115, 116>>,
     structures_threatened |-> <<115, 116, 114, 117, 99, 116, 117, 114, 101, 115, 95, 116, 104, 114, 101, 97, 116, 101, 110, 101, 100>>,
     structures_damaged |-> <<115, 116, 114, 117, 99, 116, 117, 114, 101, 115, 95, 100, 97, 109, 97, 103, 101, 100>>,
     acres_burned |-> <<97, 99, 114, 101, 115, 95, 98, 117, 114, 110, 101, 100>>,
     wind_mph |-> <<119, 105, 110, 100, 95, 109, 112, 104>>,
     precip_inches |-> <<112, 114, 101, 99, 105, 112, 95, 105, 110, 99, 104, 101, 115>>,
     temperature_f |-> <<116, 101, 109, 112, 101, 114, 97, 116, 117, 114, 101, 95, 102>>,
     evacuation_order_issued |-> <<101, 118, 97, 99, 117, 97, 116, 105, 111, 110, 95, 111, 114, 100, 101, 114, 95, 105, 115, 115, 117, 101, 100>>,
     evac_population_est |-> <<101, 118, 97, 99, 95, 112, 111, 112, 117, 108, 97, 116, 105, 111, 110, 95, 101, 115, 116>>,
     hospital_diversion_flag |-> <<104, 111, 115, 112, 105, 116, 97, 108, 95, 100, 105, 118, 101, 114, 115, 105, 111, 110, 95, 102, 108, 97, 103>>,
     start_hour |-> <<115, 116, 97, 114, 116, 95, 104, 111, 117, 114>>,
     start_month |-> <<115, 116, 97, 114, 116, 95, 109, 111, 110, 116, 104>>,
     incident_category |-> <<105, 110, 99, 105, 100, 101, 110, 116, 95, 99, 97, 116, 101, 103, 111, 114, 121>>,
     incident_subtype |-> <<105, 110, 99, 105, 100, 101, 110, 116, 95, 115, 117, 98, 116, 121, 112, 101>>,
     city |-> <<99, 105, 116, 121>>,
     state |-> <<115, 116, 97, 116, 101>>]

\* The name of a column as text: the feature, or f"{feature}__{level}".
ColumnName(c) ==
    IF c.onehot THEN FeatureText[c.feature] \o <<95, 95>> \o c.level
    ELSE FeatureText[c.feature]

-----------------------------------------------------------------------------
(* Feature vectorizer *)

\* The trimmed text of a categorical field: str(row.get(feature, "")).strip()
LevelOf(row, feature) == Strip(PyStr(Get(row, feature, RawStr(<<>>))))

\* sorted(values) of a set of texts: ascending by LexLess.
RECURSIVE SortedLevels(_)
SortedLevels(values) ==
    IF values = {} THEN <<>>
    ELSE LET least == CHOOSE x \in values : \A y \in values \ {x} : LexLess(x, y)
         IN  <<least>> \o SortedLevels(values \ {least})

\* Each feature's distinct non-empty values in order of first occurrence:
\* the vocabulary without the sort.
RECURSIVE FirstSeen(_, _, _)
FirstSeen(rs, feature, i) ==
    IF i = 0 THEN <<>>
    ELSE LET before == FirstSeen(rs, feature, i - 1)
             level == LevelOf(rs[i], feature)
         IN  IF level = <<>> \/ level \in Range(before) THEN before
             ELSE Append(before, level)

collect_unsorted(rs) ==
    [feature \in Range(CATEGORICAL_FEATURES) |-> FirstSeen(rs, feature, Len(rs))]

collect_categorical_levels(rs) ==
    LET levels == [feature \in Range(CATEGORICAL_FEATURES) |->
                      {LevelOf(rs[i], feature) : i \in 1..Len(rs)} \ {<<>>}]
    IN  [feature \in Range(CATEGORICAL_FEATURES) |-> SortedLevels(levels[feature])]

\* categorical_levels.get(feature, [])
LevelsFor(levels, feature) == IF feature \in DOMAIN levels THEN levels[feature] ELSE <<>>

RECURSIVE OneHotColumns(_, _)
OneHotColumns(levels, i) ==
    IF i > Len(CATEGORICAL_FEATURES) THEN <<>>
    ELSE LET feature == CATEGORICAL_FEATURES[i]
             options == LevelsFor(levels, feature)
         IN  [j \in 1..Len(options) |-> CatCol(feature, options[j])]
                 \o OneHotColumns(levels, i + 1)

\* A feature order that walks the categorical features in sorted order of
\* their names (city, incident_category, incident_subtype, state).
build_feature_order_sorted_keys(levels) ==
    LET keys == <<"city", "incident_category", "incident_subtype", "state">>
        columns(i) == [j \in 1..Len(LevelsFor(levels, keys[i])) |->
                          CatCol(keys[i], LevelsFor(levels, keys[i])[j])]
    IN  [i \in 1..Len(NUMERIC_FEATURES) |-> NumCol(NUMERIC_FEATURES[i])]
            \o columns(1) \o columns(2) \o columns(3) \o columns(4)

build_feature_order(levels) ==
    [i \in 1..Len(NUMERIC_FEATURES) |-> NumCol(NUMERIC_FEATURES[i])]
        \o OneHotColumns(levels, 1)

\* The value the numeric loop stores for one numeric feature.
NumericValue(inc, feature) ==
    IF feature \in {"evacuation_order_issued", "hospital_diversion_flag"}
        THEN parse_bool(Get(inc, feature, RawNone))
    ELSE IF feature = "start_hour" THEN derive_time_features(inc)[1]
    ELSE IF feature = "start_month" THEN derive_time_features(inc)[2]
    ELSE parse_float(Get(inc, feature, RawNone))

\* The `values` dict: every numeric column, and one entry per option of each
\* categorical feature of the vocabulary.
ValuesOf(inc, levels) ==
    LET numeric == {NumCol(NUMERIC_FEATURES[i]) : i \in 1..Len(NUMERIC_FEATURES)}
        onehot == UNION { {CatCol(CATEGORICAL_FEATURES[i], option) :
                              option \in Range(LevelsFor(levels, CATEGORICAL_FEATURES[i]))} :
                          i \in 1..Len(CATEGORICAL_FEATURES) }
    IN  [c \in numeric \cup onehot |->
            IF c.onehot
            THEN (IF c.level = LevelOf(inc, c.feature) THEN One ELSE Zero)
            ELSE NumericValue(inc, c.feature)]

\* A vectorizer that emits a one-hot column only where the record has that
\* value: its columns follow the record, not the feature order.
vectorize_present(inc, order, levels) ==
    LET present == SelectSeq(order, LAMBDA c : ~c.onehot \/ c.level = LevelOf(inc, c.feature))
        values == ValuesOf(inc, levels)
    IN  [i \in 1..Len(present) |-> values[present[i]]]

vectorize_incident(inc, order, levels) ==
    LET values == ValuesOf(inc, levels)
    IN  [i \in 1..Len(order) |->
            IF order[i] \in DOMAIN values THEN values[order[i]] ELSE Zero]

-----------------------------------------------------------------------------
(* kNN predictor: arithmetic *)

\* Distances are held in thousandths (floor): the distance between vectors
\* of whole numbers whose squared distance is below 2147 is ordered exactly
\* as its square root.  Weights are held in units of 1 / WeightScale of
\* 1e6, so that an exact match (d = 0) weighs WeightScale.
WeightScale == 50000000

\* eps = 1e-6, in millionths.
Eps == 1

RECURSIVE SumSquares(_, _, _)
SumSquares(a, b, i) ==
    IF i > Len(a) THEN Zero
    ELSE LET diff == FSub(a[i], b[i])
         IN  FAdd(FMul(diff, diff), SumSquares(a, b, i + 1))

\* np.sqrt of a sum of squares, in thousandths.
FSqrt(x) ==
    IF IsFin(x) THEN Fin(Isqrt(x.v * 1000000)) ELSE x

euclidean_dist(a, b) == FSqrt(SumSquares(a, b, 1))

Min(a, b) == IF a <= b THEN a ELSE b
Max(a, b) == IF a >= b THEN a ELSE b

\* Whether row i comes before row j in np.argsort(dists): ascending, NaN
\* last.  The default sort kind is not a stable sort: the order of equal
\* keys is fixed by the build, which the tie rule stands for.
SortsBefore(dists, rule, i, j) ==
    IF FLess(dists[i], dists[j]) THEN TRUE
    ELSE IF FLess(dists[j], dists[i]) THEN FALSE
    ELSE IF IsNaN(dists[i]) # IsNaN(dists[j]) THEN IsNaN(dists[j])
    ELSE IF rule = "stable" THEN i < j
    ELSE i > j

\* The rows left in dataset order.
unsorted(dists, rule) == [p \in 1..Len(dists) |-> p]

argsort(dists, rule) ==
    LET n == Len(dists)
        place(i) == 1 + Cardinality({j \in 1..n : j # i /\ SortsBefore(dists, rule, j, i)})
    IN  [p \in 1..n |-> CHOOSE i \in 1..n : place(i) = p]

\* w = 1.0 / d, without eps.
WeightNoEps(d) ==
    IF IsNaN(d) THEN NaN
    ELSE IF IsInf(d) THEN Zero
    ELSE IF d.v = 0 THEN PosInf
    ELSE Fin(WeightScale \div (d.v * 1000))

\* w = 1.0 / (d + eps), d in thousandths; numpy divides by zero to inf.
Weight(d) ==
    IF IsNaN(d) THEN NaN
    ELSE IF IsInf(d) THEN Zero
    ELSE IF d.v * 1000 + Eps = 0 THEN PosInf
    ELSE Fin(WeightScale \div (d.v * 1000 + Eps))

RECURSIVE FSum(_)
FSum(xs) == IF xs = <<>> THEN Zero ELSE FAdd(Head(xs), FSum(Tail(xs)))

\* A quotient of two floats, kept exact: num / den with den > 0 when finite.
\* The rounding of the floating-point sum and division is left out: the
\* value stands for the real-number weighted average.
QNaN == [t |-> "nan", num |-> 0, den |-> 1]
QZero == [t |-> "fin", num |-> 0, den |-> 1]
Quot(num, den) ==
    IF IsNaN(num) \/ IsNaN(den) THEN QNaN
    ELSE IF IsInf(den) THEN (IF IsInf(num) THEN QNaN ELSE QZero)
    ELSE IF IsInf(num)
        THEN (IF den.v = 0 THEN [t |-> "inf", num |-> num.v, den |-> 1]
              ELSE [t |-> "inf", num |-> num.v * Sign(den.v), den |-> 1])
    ELSE IF den.v = 0
        THEN (IF num.v = 0 THEN QNaN ELSE [t |-> "inf", num |-> Sign(num.v), den |-> 1])
    ELSE [t |-> "fin", num |-> num.v * Sign(den.v), den |-> den.v * Sign(den.v)]

\* float(x) if x > 0 else 0.0
clamp_nonneg(x) == IF x.t # "nan" /\ x.num > 0 THEN x ELSE QZero

\* math.ceil: an int for a finite float; raises OverflowError for an
\* infinity and ValueError for NaN.
Ceil(x) ==
    IF x.t = "fin" THEN [ok |-> TRUE, n |-> 0 - ((0 - x.num) \div x.den), error |-> ""]
    ELSE IF x.t = "inf" THEN [ok |-> FALSE, n |-> 0, error |-> "OverflowError"]
    ELSE [ok |-> FALSE, n |-> 0, error |-> "ValueError"]

-----------------------------------------------------------------------------
(* kNN predictor *)

\* top_n = min(5, len(idx))
TopN == 5

\* A vocabulary kept from call to call: the levels of the passed rows merged
\* into the vocabulary of the calls before.
KeptVocabulary(rs) ==
    LET fresh == collect_categorical_levels(rs)
    IN  [feature \in Range(CATEGORICAL_FEATURES) |->
            SortedLevels(Range(fresh[feature])
                         \cup Range(LevelsFor(categorical_levels, feature)))]

\* categorical_levels = collect_categorical_levels(rows)
KnnVocabulary(rs) == collect_categorical_levels(rs)

\* idx = order[: min(k, len(order))], k as passed.
NeighborhoodAsPassed(sorted, kk) == SubSeq(sorted, 1, Min(kk, Len(sorted)))

\* idx = order[-min(k, len(order)):]: the far end of the sorted rows.
NeighborhoodFarthest(sorted, kk) ==
    SubSeq(sorted, Len(sorted) - Min(Max(1, kk), Len(sorted)) + 1, Len(sorted))

\* A neighborhood broadened to min_pool rows when k asks for fewer.
NeighborhoodBroadened(sorted, kk) ==
    SubSeq(sorted, 1, Min(Max(Max(1, kk), min_pool), Len(sorted)))

\* k = max(1, int(k)); idx = order[: min(k, len(order))]
Neighborhood(sorted, kk) == SubSeq(sorted, 1, Min(Max(1, kk), Len(sorted)))

\* No dataset counts as empty.
NeverEmpty(rs) == FALSE

\* if not historical_rows
EmptyDataset(rs) == rs = <<>>

\* One entry of similar_incidents_top5; row_index counts from 0.
SimilarEntry(rs, L, rank) ==
    LET i == L.idx[rank]
        r == rs[i]
    IN  [rank |-> rank,
         row_index |-> i - 1,
         distance |-> L.dists[i],
         incident_category |-> PyStr(Get(r, "incident_category", RawStr(<<>>))),
         incident_subtype |-> PyStr(Get(r, "incident_subtype", RawStr(<<>>))),
         city |-> PyStr(Get(r, "city", RawStr(<<>>))),
         state |-> PyStr(Get(r, "state", RawStr(<<>>))),
         population_affected_est |-> parse_float(Get(r, "population_affected_est", RawNone)),
         structures_damaged |-> parse_float(Get(r, "structures_damaged", RawNone)),
         structures_threatened |-> parse_float(Get(r, "structures_threatened", RawNone)),
         actual_firetrucks_dispatched_engines |->
             parse_float(Get(r, "firetrucks_dispatched_engines", RawNone)),
         actual_ambulances_dispatched |->
             parse_float(Get(r, "ambulances_dispatched", RawNone))]

Raised(error) == [status |-> error, value |-> <<>>]

\* What knn_predict returns, or the exception int(math.ceil(...)) raises.
KnnReturn(q, rs, L) ==
    LET pred_engines == Ceil(clamp_nonneg(L.pred[1]))
        pred_amb == Ceil(clamp_nonneg(L.pred[2]))
        top_n == Min(TopN, Len(L.idx))
    IN  IF ~pred_engines.ok THEN Raised(pred_engines.error)
        ELSE IF ~pred_amb.ok THEN Raised(pred_amb.error)
        ELSE [status |-> "ok",
              value |-> << [prediction |->
                               [firetrucks_dispatched_engines |-> pred_engines.n,
                                ambulances_dispatched |-> pred_amb.n],
                            query_used |->
                               [incident_category |-> Get(q, "incident_category", RawNone),
                                incident_subtype |-> Get(q, "incident_subtype", RawNone),
                                city |-> Get(q, "city", RawNone),
                                state |-> Get(q, "state", RawNone),
                                buildings_affected |-> Get(q, "structures_damaged", RawNone),
                                population_affected_est |->
                                    Get(q, "population_affected_est", RawNone),
                                severity_1_5 |-> Get(q, "severity_1_5", RawNone)],
                            similar_incidents_top5 |->
                               [rank \in 1..top_n |-> SimilarEntry(rs, L, rank)],
                            k_used |-> Len(L.idx)] >>]

\* A knn_predict that stores each row's derived time features in the row:
\* row["start_hour"], row["start_month"] = derive_time_features(row).
KnnInputsAnnotated(q, rs) ==
    [query |-> q,
     rows |-> [i \in 1..Len(rs) |->
                  [f \in DOMAIN rs[i] \cup {"start_hour", "start_month"} |->
                      IF f = "start_hour" THEN RawFloat(derive_time_features(rs[i])[1])
                      ELSE IF f = "start_month" THEN RawFloat(derive_time_features(rs[i])[2])
                      ELSE rs[i][f]]]]

\* The objects passed to knn_predict as the call leaves them, whether it
\* returns or raises.  The function and the helpers it hands them to only
\* read them (`if not rows`, iteration, r.get(...), query.get(...)): nothing
\* is stored into a row, into the list or into the query.
KnnInputsAfter(q, rs) == [query |-> q, rows |-> rs]

\* One call knn_predict(q, rs, kk): an empty dataset raises before anything
\* is computed; otherwise the vocabulary and the feature order are built
\* from rs and each local is computed from the ones before it.
KnnCall(q, rs, kk) ==
    /\ query' = q
    /\ IF EmptyDataset(rs)
       THEN /\ result' = Raised("ValueError")
            /\ UNCHANGED <<categorical_levels, feature_order, kn>>
       ELSE \E levels \in {KnnVocabulary(rs)} :
            \E columns \in {build_feature_order(levels)} :
            \E X \in {[i \in 1..Len(rs) |-> vectorize_incident(rs[i], columns, levels)]} :
            \E Y \in {[i \in 1..Len(rs) |->
                          [t \in 1..Len(TARGET_FIELDS) |->
                              parse_float(Get(rs[i], TARGET_FIELDS[t], RawNone))]]} :
            \E qv \in {vectorize_incident(q, columns, levels)} :
            \E dists \in {[i \in 1..Len(rs) |-> euclidean_dist(qv, X[i])]} :
            \E order \in {argsort(dists, tie)} :
            \E idx \in {Neighborhood(order, kk)} :
            \E d \in {[p \in 1..Len(idx) |-> dists[idx[p]]]} :
            \E w \in {[p \in 1..Len(idx) |-> Weight(d[p])]} :
            \E w_sum \in {FSum(w)} :
            \* `if w_sum <= 0`: false for NaN
            \E fallback \in {~IsNaN(w_sum) /\ ~FPositive(w_sum)} :
            \E pred \in {[t \in 1..Len(TARGET_FIELDS) |->
                            IF fallback
                            THEN Quot(FSum([p \in 1..Len(idx) |-> Y[idx[p]][t]]),
                                      Fin(Len(idx)))
                            ELSE Quot(FSum([p \in 1..Len(idx) |-> FMul(w[p], Y[idx[p]][t])]),
                                      w_sum)]} :
            \E L \in {[X |-> X, qv |-> qv, Y |-> Y, dists |-> dists, order |-> order, idx |-> idx,
                        d |-> d, w |-> w, w_sum |-> w_sum, fallback |-> fallback,
                        pred |-> pred]} :
                /\ categorical_levels' = levels
                /\ feature_order' = columns
                /\ kn' = <<L>>
                /\ result' = KnnReturn(q, rs, L)

-----------------------------------------------------------------------------
(* Query construction *)

\* Python's min(x, c) for a float x and a constant c given in the same unit:
\* c if c < x, else x (so NaN stays NaN).
PyMin(x, c) == IF FLess(Fin(c), x) THEN Fin(c) ELSE x

\* Python's max(x, c): c if c > x, else x (so NaN stays NaN).
PyMax(x, c) == IF FLess(x, Fin(c)) THEN Fin(c) ELSE x

\* round() of n / 20000 for n >= 0: to the nearest integer, a tie to the
\* even one.
RoundHalfEven(n) ==
    LET q == n \div 20000
        r == n % 20000
    IN  IF 2 * r > 20000 THEN q + 1
        ELSE IF 2 * r < 20000 THEN q
        ELSE IF q % 2 = 0 THEN q ELSE q + 1

\* The severity heuristic, computed in units of 1/20000:
\*   score = min(b / 25, 2) + min(p / 20000, 3)
\*   severity = max(1, min(5, int(round(1 + min(max(score, 0), 4)))))
\* round() raises ValueError for NaN.
Severity(buildings_affected, population_affected) ==
    LET score == FAdd(PyMin(FMul(buildings_affected, Fin(800)), 40000),
                      PyMin(population_affected, 60000))
        clamped == PyMin(PyMax(score, 0), 80000)
    IN  IF IsNaN(clamped) THEN [ok |-> FALSE, n |-> 0, error |-> "ValueError"]
        ELSE [ok |-> TRUE,
              n |-> Max(1, Min(5, RoundHalfEven(20000 + clamped.v))),
              error |-> ""]

\* A query dict that fills structures_threatened only and gives the query
\* the time it is made at.
QueryDictStamped(city, buildings_affected, population_affected, incident_category, incident_subtype, inferred_state, severity) ==
    [severity_1_5 |-> RawFloat(Fin(severity)),
     duration_hours |-> RawFloat(Zero),
     population_affected_est |-> RawFloat(population_affected),
     injuries_est |-> RawFloat(Zero),
     fatalities_est |-> RawFloat(Zero),
     structures_threatened |-> RawFloat(buildings_affected),
     structures_damaged |-> RawFloat(Zero),
     acres_burned |-> RawFloat(Zero),
     wind_mph |-> RawFloat(Zero),
     precip_inches |-> RawFloat(Zero),
     temperature_f |-> RawFloat(Zero),
     evacuation_order_issued |-> RawFloat(Zero),
     evac_population_est |-> RawFloat(Zero),
     hospital_diversion_flag |-> RawFloat(Zero),
     start_time |-> RawStr(<<50, 48, 50, 52, 45, 48, 51, 45, 48, 53, 84, 49, 52, 58, 51, 48, 58, 48, 48, 90>>),
     incident_category |-> RawStr(incident_category),
     incident_subtype |-> RawStr(incident_subtype),
     city |-> RawStr(city),
     state |-> RawStr(inferred_state)]

\* The dict make_query_incident_from_ui returns for a severity it computed.
QueryDict(city, buildings_affected, population_affected, incident_category, incident_subtype, inferred_state, severity) ==
    [severity_1_5 |-> RawFloat(Fin(severity)),
     duration_hours |-> RawFloat(Zero),
     population_affected_est |-> RawFloat(population_affected),
     injuries_est |-> RawFloat(Zero),
     fatalities_est |-> RawFloat(Zero),
     structures_threatened |-> RawFloat(buildings_affected),
     structures_damaged |-> RawFloat(buildings_affected),
     acres_burned |-> RawFloat(Zero),
     wind_mph |-> RawFloat(Zero),
     precip_inches |-> RawFloat(Zero),
     temperature_f |-> RawFloat(Zero),
     evacuation_order_issued |-> RawFloat(Zero),
     evac_population_est |-> RawFloat(Zero),
     hospital_diversion_flag |-> RawFloat(Zero),
     start_time |-> RawNone,
     incident_category |-> RawStr(incident_category),
     incident_subtype |-> RawStr(incident_subtype),
     city |-> RawStr(city),
     state |-> RawStr(inferred_state)]

\* [ok, value, error]: the query dict, or the exception raised.
make_query_incident_from_ui(city, buildings_affected, population_affected, incident_category, incident_subtype, inferred_state) ==
    LET severity == Severity(buildings_affected, population_affected)
    IN  IF ~severity.ok THEN [ok |-> FALSE, value |-> <<>>, error |-> severity.error]
        ELSE [ok |-> TRUE,
              value |-> << QueryDict(city, buildings_affected, population_affected,
                                     incident_category, incident_subtype,
                                     inferred_state, severity.n) >>,
              error |-> ""]

\* The states of the rows whose trimmed city is `target`, in row order.
RECURSIVE StatesOfCity(_, _)
StatesOfCity(rs, target) ==
    IF rs = <<>> THEN <<>>
    ELSE LET row == Head(rs)
             state == LevelOf(row, "state")
         IN  (IF LevelOf(row, "city") = target /\ state # <<>> THEN <<state>> ELSE <<>>)
                 \o StatesOfCity(Tail(rs), target)

Count(xs, x) == Cardinality({i \in 1..Len(xs) : xs[i] = x})

\* max(counts.items(), key=count)[0]: the first state, in order of first
\* occurrence, whose count is the largest; "" when there is none.
MostCommon(states) ==
    IF states = <<>> THEN <<>>
    ELSE LET best == CHOOSE i \in 1..Len(states) :
                        /\ \A j \in 1..Len(states) :
                               Count(states, states[j]) <= Count(states, states[i])
                        /\ \A j \in 1..(i - 1) :
                               Count(states, states[j]) < Count(states, states[i])
         IN  states[best]

\* infer_state_for_city of the HTTP layer: the city argument is trimmed.
infer_state_for_city(rs, city) == MostCommon(StatesOfCity(rs, Strip(city)))

\* infer_state_for_city of the standalone module: each row's trimmed city is
\* compared with the city argument as passed.
initial_resource_model_infer_state_for_city(rs, city) == MostCommon(StatesOfCity(rs, city))

-----------------------------------------------------------------------------
(* HTTP endpoint *)

\* initial_prediction, for a POST whose body is a JSON object: the incident
\* of the body is `incident`, its "k" is `k`, and load_prediction_rows()
\* answers the cached dataset `rows`.  An exception that leaves the view is
\* answered 500.
InitialPrediction ==
    /\ pc = "start"
    /\ pc' = "answered"
    /\ LET city == LevelOf(incident, "city")
           threatened == parse_float(Get(incident, "structures_threatened", RawNone))
           buildings == IF threatened = Zero
                        THEN parse_float(Get(incident, "structures_damaged", RawNone))
                        ELSE threatened
           population == parse_float(Get(incident, "population_affected_est", RawNone))
           category == LevelOf(incident, "incident_category")
           subtype == LevelOf(incident, "incident_subtype")
       IN  IF rows = <<>>
           THEN /\ response' = [status |-> 503, body |-> <<>>]
                /\ UNCHANGED <<query, categorical_levels, feature_order, kn, result>>
           ELSE \E built \in {make_query_incident_from_ui(
                                 city, buildings, population, category, subtype,
                                 infer_state_for_city(rows, city))} :
                IF ~built.ok
                THEN /\ response' = [status |-> 500, body |-> <<>>]
                     /\ UNCHANGED <<query, categorical_levels, feature_order, kn, result>>
                ELSE /\ KnnCall(built.value[1], rows, k)
                     /\ response' = IF result'.status = "ok"
                                    THEN [status |-> 200, body |-> result'.value]
                                    ELSE [status |-> 500, body |-> <<>>]
    /\ UNCHANGED <<rows, incident, k, tie, vec, first, calls, ui, made>>
    /\ UNCHANGED <<city_arg, inferred, min_pool, seen, linearVars, dispatchVars>>

\* A direct call knn_predict(query=incident, rows=rows, k=k).
KnnPredict ==
    /\ pc = "start"
    /\ pc' = "returned"
    /\ KnnCall(incident, rows, k)
    /\ UNCHANGED <<rows, incident, k, tie, vec, response, first, calls, ui, made>>
    /\ UNCHANGED <<city_arg, inferred, min_pool, seen, linearVars, dispatchVars>>

-----------------------------------------------------------------------------
(* The inputs the model draws *)

\* The longest dataset.
MaxRows == 6

Text_Fire == <<70, 105, 114, 101>>
Text_Flood == <<70, 108, 111, 111, 100>>
Text_Quake == <<81, 117, 97, 107, 101>>
Text_Reno == <<82, 101, 110, 111>>
Text_NV == <<78, 86>>
Text_CA == <<67, 65>>

\* Historical rows, as csv.DictReader yields them: text, or None for a
\* field a short line lacks.
RowFire1 ==
    [incident_category |-> RawStr(Text_Fire), population_affected_est |-> RawStr(<<49>>),
     firetrucks_dispatched_engines |-> RawStr(<<50>>), ambulances_dispatched |-> RawStr(<<49>>)]
RowFlood ==
    [incident_category |-> RawStr(Text_Flood), population_affected_est |-> RawStr(<<50>>),
     city |-> RawStr(Text_Reno), state |-> RawStr(Text_CA),
     firetrucks_dispatched_engines |-> RawStr(<<49>>), ambulances_dispatched |-> RawStr(<<52>>)]
RowFire3 ==
    [incident_category |-> RawStr(<<32, 70, 105, 114, 101, 32>>), population_affected_est |-> RawStr(<<32, 51, 32>>),
     city |-> RawStr(<<82, 101, 110, 111, 32>>), state |-> RawStr(Text_NV),
     evacuation_order_issued |-> RawStr(<<89, 101, 115>>),
     start_time |-> RawStr(<<50, 48, 50, 52, 45, 48, 51, 45, 48, 53, 84, 49, 52, 58, 51, 48, 58, 48, 48, 90>>),
     firetrucks_dispatched_engines |-> RawStr(<<51>>), ambulances_dispatched |-> RawStr(<<50>>)]
RowFar ==
    [population_affected_est |-> RawStr(<<105, 110, 102>>), start_time |-> RawStr(<<50, 48, 50, 52, 45, 48, 50, 45, 51, 48>>),
     firetrucks_dispatched_engines |-> RawStr(<<45, 50>>), ambulances_dispatched |-> RawStr(<<49>>)]
RowNoisy ==
    [incident_category |-> RawStr(<<32, 32>>), population_affected_est |-> RawStr(<<110, 47, 97>>),
     city |-> RawNone, evacuation_order_issued |-> RawStr(<<110, 111>>),
     firetrucks_dispatched_engines |-> RawStr(<<45, 51>>), ambulances_dispatched |-> RawStr(<<>>)]
RowUnbounded ==
    [incident_category |-> RawNone, population_affected_est |-> RawStr(<<49>>),
     firetrucks_dispatched_engines |-> RawStr(<<49>>), ambulances_dispatched |-> RawStr(<<105, 110, 102>>)]
RowNaN ==
    [incident_category |-> RawStr(Text_Flood), wind_mph |-> RawStr(<<78, 97, 78>>),
     firetrucks_dispatched_engines |-> RawStr(<<50>>), ambulances_dispatched |-> RawStr(<<48>>)]

RowPool == {RowFire1, RowFlood, RowFire3, RowFar, RowNoisy, RowUnbounded, RowNaN}

\* A short dataset repeated row by row up to n rows.
Extended(rs, n) == [i \in 1..n |-> rs[((i - 1) % Len(rs)) + 1]]

ShortDatasets ==
    {<<>>} \cup {<<a>> : a \in RowPool} \cup {<<a, b>> : a, b \in RowPool}

Datasets == ShortDatasets \cup {Extended(rs, MaxRows) : rs \in ShortDatasets \ {<<>>}}

\* Incidents: the query dict of a direct call, the "incident" of a request
\* body (JSON text, numbers and null).
IncidentFire ==
    [incident_category |-> RawStr(Text_Fire), population_affected_est |-> RawStr(<<49>>)]
IncidentQuake ==
    [incident_category |-> RawStr(<<32, 81, 117, 97, 107, 101>>), city |-> RawStr(<<32, 82, 101, 110, 111>>),
     structures_damaged |-> RawFloat(Fin(2)), population_affected_est |-> RawFloat(Fin(3))]
IncidentNaN ==
    [incident_category |-> RawStr(Text_Flood), population_affected_est |-> RawStr(<<110, 97, 110>>)]
IncidentHuge ==
    [incident_category |-> RawNone, structures_threatened |-> RawStr(<<73, 110, 102, 105, 110, 105, 116, 121>>)]

IncidentPool == {IncidentFire, IncidentQuake, IncidentNaN, IncidentHuge}

KSet == {-1, 0, 2, MaxRows}

TieRules == {"stable", "reversed"}

NoResult == [status |-> "none", value |-> <<>>]
NoResponse == [status |-> 0, body |-> <<>>]
NoQuery == [ok |-> FALSE, value |-> <<>>, error |-> "none"]
NoInference == [impl |-> "none", state |-> <<>>]

\* min_pool: int = 50
DefaultMinPool == 50

\* No ResourceModel has been trained or loaded.
NoModel == model = <<>>

\* No database is in use: the tables are empty and there is no client.
NoDatabase ==
    /\ units = <<>>
    /\ requests = <<>>
    /\ assignment_rows = {}
    /\ log_entries = <<>>
    /\ row_locks = <<>>
    /\ clients = <<>>

\* What a run of the prediction engine alone leaves as it is.
EngineOnly ==
    /\ city_arg = <<>>
    /\ min_pool = DefaultMinPool
    /\ NoModel
    /\ NoDatabase

\* Nothing has been called yet.
Idle ==
    /\ pc = "start"
    /\ query = <<>>
    /\ categorical_levels = <<>>
    /\ feature_order = <<>>
    /\ vec = <<>>
    /\ kn = <<>>
    /\ result = NoResult
    /\ response = NoResponse
    /\ first = <<>>
    /\ calls = <<>>
    /\ made = NoQuery
    /\ inferred = NoInference
    /\ seen = <<>>
    /\ predictions = <<>>

-----------------------------------------------------------------------------
(* One prediction: a direct call of knn_predict, or a request to the endpoint *)

Init ==
    /\ rows \in Datasets
    /\ incident \in IncidentPool
    /\ k \in KSet
    /\ tie \in TieRules
    /\ ui = <<>>
    /\ EngineOnly
    /\ Idle

Next == KnnPredict \/ InitialPrediction

Spec == Init /\ [][Next]_vars

-----------------------------------------------------------------------------
(* The vectorizer, function by function *)

\* The longest dataset a vocabulary is collected from.
MaxVecRows == 3

\* The rows that differ in their categorical fields.
VecRowPool == {RowFire1, RowFlood, RowFire3, RowNoisy, RowUnbounded}

VecDatasets == UNION {[1..n -> VecRowPool] : n \in 0..MaxVecRows}

\* The records vectorized: queries and historical rows.
VecIncidents == {IncidentFire, IncidentQuake, IncidentHuge, RowFire3, RowNoisy, RowUnbounded}

\* categorical_levels = collect_categorical_levels(rows)
CollectLevels ==
    /\ pc = "start"
    /\ pc' = "levels"
    /\ categorical_levels' = collect_categorical_levels(rows)
    /\ UNCHANGED <<rows, incident, k, tie, query, feature_order, vec, kn, result,
                   response, first, calls, ui, made>>
    /\ UNCHANGED <<city_arg, inferred, min_pool, seen, linearVars, dispatchVars>>

\* feature_order = build_feature_order(categorical_levels)
BuildOrder ==
    /\ pc = "levels"
    /\ pc' = "order"
    /\ feature_order' = build_feature_order(categorical_levels)
    /\ UNCHANGED <<rows, incident, k, tie, query, categorical_levels, vec, kn, result,
                   response, first, calls, ui, made>>
    /\ UNCHANGED <<city_arg, inferred, min_pool, seen, linearVars, dispatchVars>>

\* vectorize_incident(incident, feature_order, categorical_levels)
Vectorize ==
    /\ pc = "order"
    /\ pc' = "vectorized"
    /\ vec' = vectorize_incident(incident, feature_order, categorical_levels)
    /\ UNCHANGED <<rows, incident, k, tie, query, categorical_levels, feature_order, kn,
                   result, response, first, calls, ui, made>>
    /\ UNCHANGED <<city_arg, inferred, min_pool, seen, linearVars, dispatchVars>>

InitVec ==
    /\ rows \in VecDatasets
    /\ incident \in VecIncidents
    /\ k = 0
    /\ tie = "stable"
    /\ ui = <<>>
    /\ EngineOnly
    /\ Idle

NextVec == CollectLevels \/ BuildOrder \/ Vectorize

SpecVec == InitVec /\ [][NextVec]_vars

-----------------------------------------------------------------------------
(* Several calls of knn_predict in one process *)

\* The most knn_predict calls of one run.
MaxCalls == 3

DetRowPool == {RowFire1, RowFlood, RowFire3, RowNoisy}

DetDatasets == {<<>>} \cup {<<a>> : a \in DetRowPool} \cup {<<a, b>> : a, b \in DetRowPool}

\* The datasets and the query of the calls made in between.
OtherDatasets == {<<RowFire1>>, <<RowFlood, RowUnbounded>>}
OtherIncidents == {IncidentQuake}
\* k of those calls: the endpoint's default
OtherK == 15

\* The first call knn_predict(incident, rows, k).
DetFirst ==
    /\ pc = "start"
    /\ Len(calls) < MaxCalls
    /\ pc' = "called"
    /\ calls' = Append(calls, "rows")
    /\ KnnCall(incident, rows, k)
    /\ first' = <<result'>>
    /\ UNCHANGED <<rows, incident, k, tie, vec, response, ui, made>>
    /\ UNCHANGED <<city_arg, inferred, min_pool, seen, linearVars, dispatchVars>>

\* A call of knn_predict with another dataset and query.
DetOther ==
    /\ pc \in {"start", "called", "again"}
    /\ Len(calls) < MaxCalls
    /\ pc' = IF pc = "again" THEN "called" ELSE pc
    /\ calls' = Append(calls, "other")
    /\ \E rs \in OtherDatasets, q \in OtherIncidents : KnnCall(q, rs, OtherK)
    /\ UNCHANGED <<rows, incident, k, tie, vec, response, first, ui, made>>
    /\ UNCHANGED <<city_arg, inferred, min_pool, seen, linearVars, dispatchVars>>

\* A later call knn_predict(incident, rows, k), the inputs of the first.
DetAgain ==
    /\ pc \in {"called", "again"}
    /\ Len(calls) < MaxCalls
    /\ pc' = "again"
    /\ calls' = Append(calls, "rows")
    /\ KnnCall(incident, rows, k)
    /\ UNCHANGED <<rows, incident, k, tie, vec, response, first, ui, made>>
    /\ UNCHANGED <<city_arg, inferred, min_pool, seen, linearVars, dispatchVars>>

InitDet ==
    /\ rows \in DetDatasets
    /\ incident \in IncidentPool
    /\ k \in {0, 2}
    /\ tie \in TieRules
    /\ ui = <<>>
    /\ EngineOnly
    /\ Idle

NextDet == DetFirst \/ DetOther \/ DetAgain

SpecDet == InitDet /\ [][NextDet]_vars

-----------------------------------------------------------------------------
(* The query built from the UI's inputs *)

\* buildings_affected: whole numbers, and the floats parse_float can yield.
BuildingsInputs ==
    {Fin(n) : n \in {-5, 0, 1, 12, 13, 25, 37, 38, 50, 1000}} \cup {NaN, PosInf, NegInf}

\* population_affected
PopulationInputs ==
    {Fin(n) : n \in {-1, 0, 10000, 20000, 30000, 50000, 60000, 1000000}}
        \cup {NaN, PosInf, NegInf}

\* make_query_incident_from_ui(city, buildings_affected, population_affected, ...)
MakeQuery ==
    /\ pc = "start"
    /\ pc' = "made"
    /\ made' = make_query_incident_from_ui(ui.city, ui.buildings_affected,
                                           ui.population_affected, ui.incident_category,
                                           ui.incident_subtype, ui.inferred_state)
    /\ UNCHANGED <<rows, incident, k, tie, query, categorical_levels, feature_order, vec,
                   kn, result, response, first, calls, ui>>
    /\ UNCHANGED <<city_arg, inferred, min_pool, seen, linearVars, dispatchVars>>

InitQuery ==
    /\ rows = <<>>
    /\ incident = IncidentFire
    /\ k = 0
    /\ tie = "stable"
    /\ ui \in [city : {Text_Reno}, buildings_affected : BuildingsInputs,
                population_affected : PopulationInputs, incident_category : {Text_Fire},
                incident_subtype : {<<>>}, inferred_state : {Text_NV}]
    /\ EngineOnly
    /\ Idle

NextQuery == MakeQuery

SpecQuery == InitQuery /\ [][NextQuery]_vars

-----------------------------------------------------------------------------
(* Properties of knn_predict and of the endpoint, under Spec *)

\* knn_predict has returned a prediction for (query, rows, k).
Returned == result.status = "ok"

\* C1, as the specification states it: for a dataset of N >= 1 rows, any
\* query and any k, the returned k_used equals min(k, N).
C1_KUsedIsMinOfKAndN ==
    Returned => result.value[1].k_used = Min(k, Len(rows))

\* C1, as the code has it: k is raised to 1 first, so whenever knn_predict
\* returns, k_used equals min(max(k, 1), N).
C1_KUsedIsMinOfRaisedKAndN ==
    Returned =>
        /\ Len(rows) >= 1
        /\ result.value[1].k_used = (IF k < 1 THEN Min(1, Len(rows)) ELSE Min(k, Len(rows)))
        /\ result.value[1].k_used = Len(kn[1].idx)

\* A call with k below 1 on several rows has returned.
C1_Witness ==
    /\ pc = "returned" /\ Returned
    /\ k < 1 /\ Len(rows) > 1
    /\ result.value[1].k_used = 1

\* C2: for every non-empty dataset and query, knn_predict reports for each
\* target a non-negative integer, the least integer not below max(raw, 0)
\* for the raw weighted average of that target (2.1 -> 3, 2.0 -> 2, a
\* negative raw value -> 0).
C2_PredictionIsCeilOfClampedRaw ==
    (rows # <<>> /\ query # <<>>) =>
        /\ Returned
        /\ LET prediction == result.value[1].prediction
               reported == <<prediction.firetrucks_dispatched_engines,
                             prediction.ambulances_dispatched>>
           IN  \A t \in 1..2 :
                   LET raw == kn[1].pred[t]
                   IN  /\ reported[t] \in Nat
                       /\ (raw.t = "fin" /\ raw.num <= 0) => reported[t] = 0
                       /\ (raw.t = "fin" /\ raw.num > 0) =>
                              /\ reported[t] * raw.den >= raw.num
                              /\ (reported[t] - 1) * raw.den < raw.num

\* C3: an empty dataset never yields a prediction: knn_predict raises its
\* input error before it computes anything, and the endpoint answers 503
\* without calling knn_predict.
C3_EmptyDatasetYieldsNoPrediction ==
    rows = <<>> =>
        /\ ~Returned
        /\ categorical_levels = <<>> /\ feature_order = <<>> /\ kn = <<>>
        /\ pc = "returned" => result = Raised("ValueError")
        /\ pc = "answered" =>
               /\ response = [status |-> 503, body |-> <<>>]
               /\ result = NoResult /\ query = <<>>

\* knn_predict was called with no rows and has raised.
C3_Witness ==
    /\ rows = <<>> /\ pc = "returned"
    /\ result.status = "ValueError"

\* C8: the explanation list has min(5, k_used) entries; entry i has rank
\* i, names a row of the dataset by its position and carries that row's
\* distance and fields; the rows named are distinct, fewer than i rows are
\* strictly nearer than the row of entry i, and no entry's distance is
\* below that of the entry before it (a NaN distance counts as farthest).
C8_ExplanationListIsNearestFirst ==
    Returned =>
        LET out == result.value[1]
            sim == out.similar_incidents_top5
            dist == kn[1].dists
            Nearer(a, b) == ~IsNaN(a) /\ (IsNaN(b) \/ FLess(a, b))
            row(i) == sim[i].row_index + 1
        IN  /\ Len(sim) = Min(5, out.k_used)
            /\ \A i \in 1..Len(sim) :
                   /\ sim[i].rank = i
                   /\ row(i) \in 1..Len(rows)
                   /\ sim[i].distance = dist[row(i)]
                   /\ sim[i].actual_ambulances_dispatched =
                          parse_float(Get(rows[row(i)], "ambulances_dispatched", RawNone))
                   /\ \A j \in 1..(i - 1) : row(j) # row(i)
                   /\ Cardinality({r \in 1..Len(rows) : Nearer(dist[r], dist[row(i)])}) < i
            /\ \A i \in 1..(Len(sim) - 1) : ~Nearer(sim[i + 1].distance, sim[i].distance)

\* More than five neighbors were used, at distances that differ, and the
\* list holds five of them.
C8_Witness ==
    /\ Returned
    /\ result.value[1].k_used > 5
    /\ Len(result.value[1].similar_incidents_top5) = 5
    /\ FLess(result.value[1].similar_incidents_top5[1].distance,
             result.value[1].similar_incidents_top5[5].distance)
    /\ result.value[1].similar_incidents_top5[1].row_index # 0

\* C9, as the specification states it: every selected neighbor's weight is
\* finite and strictly positive, so the summed weight is > 0 and the
\* unweighted-mean fallback is never taken.
C9_WeightsAlwaysPositive ==
    kn # <<>> =>
        /\ \A p \in 1..Len(kn[1].idx) : IsFin(kn[1].w[p]) /\ kn[1].w[p].v > 0
        /\ IsFin(kn[1].w_sum) /\ kn[1].w_sum.v > 0
        /\ ~kn[1].fallback

\* C9, as the code has it: a selected neighbor at a finite distance (d = 0
\* included) has a finite, strictly positive weight, and one at an infinite
\* distance has weight 0; when every selected neighbor is at a finite
\* distance the summed weight is > 0 and the fallback is not taken, and when
\* every one is at an infinite distance the sum is 0 and the fallback is
\* taken; a NaN distance makes the sum NaN, for which it is not taken.
C9_FiniteDistanceWeightsPositive ==
    (kn # <<>> /\ rows # <<>>) =>
        LET L == kn[1]
            sel == 1..Len(L.idx)
        IN  /\ sel # {}
            /\ \A p \in sel :
                   /\ IsFin(L.d[p]) => (IsFin(L.w[p]) /\ L.w[p].v > 0)
                   /\ IsInf(L.d[p]) => L.w[p] = Zero
            /\ (\A p \in sel : IsFin(L.d[p])) =>
                   (IsFin(L.w_sum) /\ L.w_sum.v > 0 /\ ~L.fallback)
            /\ (\A p \in sel : IsInf(L.d[p])) => (L.w_sum = Zero /\ L.fallback)
            /\ (\E p \in sel : IsNaN(L.d[p])) => (IsNaN(L.w_sum) /\ ~L.fallback)

\* A selected neighbor is identical to the query (d = 0) and the weighted
\* average was used.
C9_Witness ==
    /\ kn # <<>> /\ Returned
    /\ \E p \in 1..Len(kn[1].idx) : kn[1].d[p] = Zero /\ IsFin(kn[1].w[p])
    /\ ~kn[1].fallback

-----------------------------------------------------------------------------
(* Properties of the vectorizer, under SpecVec *)

\* C4: for every record and every vocabulary with its feature order, the
\* vector vectorize_incident returns has exactly len(feature_order) entries.
C4_VectorLengthIsFeatureOrderLength ==
    pc = "vectorized" =>
        /\ Len(vec) = Len(feature_order)
        /\ DOMAIN vec = 1..Len(feature_order)

\* A record whose category is not in the vocabulary has been vectorized
\* under a vocabulary with one-hot columns.
C4_Witness ==
    /\ pc = "vectorized"
    /\ Len(feature_order) > Len(NUMERIC_FEATURES)
    /\ LevelOf(incident, "incident_category") # <<>>
    /\ LevelOf(incident, "incident_category") \notin Range(categorical_levels["incident_category"])
    /\ Len(vec) = Len(feature_order)

\* C6: for every categorical feature, the one-hot column of the record's
\* trimmed value is 1.0 and the feature's other columns are 0.0 when that
\* value is in the vocabulary; all of the feature's columns are 0.0 when
\* the value is absent (key missing or null), empty or not in the vocabulary.
C6_OneHotOfTrimmedValue ==
    pc = "vectorized" =>
        \A f \in 1..Len(CATEGORICAL_FEATURES) :
            LET feature == CATEGORICAL_FEATURES[f]
                value == IF feature \in DOMAIN incident /\ incident[feature].k = "str"
                         THEN Strip(incident[feature].s)
                         ELSE <<>>
                cols == {i \in 1..Len(feature_order) :
                            feature_order[i].onehot /\ feature_order[i].feature = feature}
            IN  \A i \in cols :
                    vec[i] = (IF value # <<>> /\ feature_order[i].level = value
                              THEN One ELSE Zero)

\* C7: collect_categorical_levels returns each feature's values in strictly
\* ascending lexicographic order, and returns the same for every
\* permutation of the rows.
C7_VocabularySortedWhateverTheRowOrder ==
    pc = "levels" =>
        /\ \A feature \in Range(CATEGORICAL_FEATURES) :
               \A i \in 1..(Len(categorical_levels[feature]) - 1) :
                   LexLess(categorical_levels[feature][i], categorical_levels[feature][i + 1])
        /\ \A perm \in {p \in [1..Len(rows) -> 1..Len(rows)] :
                             \A i, j \in 1..Len(rows) : p[i] = p[j] => i = j} :
               collect_categorical_levels([i \in 1..Len(rows) |-> rows[perm[i]]])
                   = categorical_levels

\* The vocabulary of a dataset whose second row's category sorts before its
\* first row's has been collected.
C7_Witness ==
    /\ pc = "levels"
    /\ Len(rows) >= 2
    /\ LexLess(LevelOf(rows[2], "incident_category"), LevelOf(rows[1], "incident_category"))
    /\ LevelOf(rows[2], "incident_category") # <<>>
    /\ Len(categorical_levels["incident_category"]) >= 2

-----------------------------------------------------------------------------
(* Properties of repeated calls, under SpecDet *)

-----------------------------------------------------------------------------
(* Properties of the severity heuristic, under SpecQuery *)

\* C10: the severity make_query_incident_from_ui computes is an integer in
\* 1..5 for every buildings and population input; it is 1 for 0 and 0 and 5
\* whenever both terms saturate (buildings >= 50, population >= 60000).
C10_SeverityBetweenOneAndFive ==
    pc = "made" =>
        /\ made.ok
        /\ \E n \in 1..5 : made.value[1].severity_1_5 = RawFloat(Fin(n))
        /\ (ui.buildings_affected = Fin(0) /\ ui.population_affected = Fin(0)) =>
               made.value[1].severity_1_5 = RawFloat(Fin(1))
        /\ (/\ ~IsNaN(ui.buildings_affected) /\ ~FLess(ui.buildings_affected, Fin(50))
            /\ ~IsNaN(ui.population_affected) /\ ~FLess(ui.population_affected, Fin(60000))) =>
               made.value[1].severity_1_5 = RawFloat(Fin(5))

-----------------------------------------------------------------------------
(* infer_state_for_city, in both implementations *)

\* The longest dataset a state is inferred from.
MaxCityRows == 3

Text_Elko == <<69, 108, 107, 111>>

RowElko == [city |-> RawStr(Text_Elko), state |-> RawStr(<<32, 78, 86, 32>>)]
RowRenoBlank == [city |-> RawStr(Text_Reno), state |-> RawStr(<<32, 32>>)]
\* A short line: csv.DictReader fills the missing state with None.
RowRenoShort == [city |-> RawStr(Text_Reno), state |-> RawNone]

CityRowPool == {RowFire1, RowFlood, RowFire3, RowElko, RowRenoBlank, RowRenoShort}

CityDatasets == UNION {[1..n -> CityRowPool] : n \in 0..MaxCityRows}

\* City arguments: known, padded, unseen, empty.
CityArgs == {Text_Reno, <<32, 82, 101, 110, 111>>, Text_Elko, <<80, 97, 114, 105, 115>>, <<>>}

\* initial_resource_model.infer_state_for_city(rows, city_arg)
InferStandalone ==
    /\ pc = "start"
    /\ pc' = "inferred"
    /\ inferred' = [impl |-> "standalone",
                    state |-> initial_resource_model_infer_state_for_city(rows, city_arg)]
    /\ UNCHANGED <<rows, incident, k, tie, query, categorical_levels, feature_order, vec,
                   kn, result, response, first, calls, ui, made>>
    /\ UNCHANGED <<city_arg, min_pool, seen, linearVars, dispatchVars>>

\* views.infer_state_for_city(rows, city_arg)
InferViews ==
    /\ pc = "start"
    /\ pc' = "inferred"
    /\ inferred' = [impl |-> "views", state |-> infer_state_for_city(rows, city_arg)]
    /\ UNCHANGED <<rows, incident, k, tie, query, categorical_levels, feature_order, vec,
                   kn, result, response, first, calls, ui, made>>
    /\ UNCHANGED <<city_arg, min_pool, seen, linearVars, dispatchVars>>

InitCity ==
    /\ rows \in CityDatasets
    /\ city_arg \in CityArgs
    /\ incident = IncidentFire
    /\ k = 0
    /\ tie = "stable"
    /\ ui = <<>>
    /\ min_pool = DefaultMinPool
    /\ NoModel
    /\ NoDatabase
    /\ Idle

NextCity == InferStandalone \/ InferViews

SpecCity == InitCity /\ [][NextCity]_vars

\* The trimmed text of a field; a missing or null field has none.
TrimmedField(row, field) ==
    IF field \in DOMAIN row /\ row[field].k = "str" THEN Strip(row[field].s) ELSE <<>>

\* C11: in both implementations, infer_state_for_city returns the empty
\* string when no row whose trimmed city equals the trimmed city argument
\* carries a non-empty state, and otherwise a state whose count among those
\* rows is maximal.
C11_MostFrequentStateOfTrimmedCity ==
    pc = "inferred" =>
        LET matching == {i \in 1..Len(rows) :
                            /\ TrimmedField(rows[i], "city") = Strip(city_arg)
                            /\ TrimmedField(rows[i], "state") # <<>>}
            count(st) == Cardinality({i \in matching : TrimmedField(rows[i], "state") = st})
        IN  IF matching = {} THEN inferred.state = <<>>
            ELSE /\ \E i \in matching : inferred.state = TrimmedField(rows[i], "state")
                 /\ \A j \in matching :
                        count(TrimmedField(rows[j], "state")) <= count(inferred.state)

-----------------------------------------------------------------------------
(* Properties of the feature order, under SpecVec *)

\* C12: build_feature_order returns the 16 numeric feature names in their
\* fixed order, then one column per vocabulary entry for category, subtype,
\* city, state in that order, each feature's entries in vocabulary (sorted)
\* order; its length is 16 + the sum of the vocabulary sizes and no column
\* name occurs twice.
C12_FeatureOrderIsNumericThenOneHot ==
    pc = "order" =>
        LET numeric == << "severity_1_5", "duration_hours", "population_affected_est",
                          "injuries_est", "fatalities_est", "structures_threatened",
                          "structures_damaged", "acres_burned", "wind_mph", "precip_inches",
                          "temperature_f", "evacuation_order_issued", "evac_population_est",
                          "hospital_diversion_flag", "start_hour", "start_month" >>
            categorical == << "incident_category", "incident_subtype", "city", "state" >>
            size(f) == Len(categorical_levels[categorical[f]])
            start(f) == 16 + (IF f > 1 THEN size(1) ELSE 0) + (IF f > 2 THEN size(2) ELSE 0)
                           + (IF f > 3 THEN size(3) ELSE 0)
        IN  /\ Len(feature_order) = 16 + size(1) + size(2) + size(3) + size(4)
            /\ \A i \in 1..16 : ColumnName(feature_order[i]) = FeatureText[numeric[i]]
            /\ \A f \in 1..4 : \A j \in 1..size(f) :
                   /\ ColumnName(feature_order[start(f) + j])
                          = FeatureText[categorical[f]] \o <<95, 95>>
                                \o categorical_levels[categorical[f]][j]
                   /\ j > 1 => LexLess(categorical_levels[categorical[f]][j - 1],
                                       categorical_levels[categorical[f]][j])
            /\ \A i, j \in 1..Len(feature_order) :
                   ColumnName(feature_order[i]) = ColumnName(feature_order[j]) => i = j

\* The order was built from a vocabulary with several categories and a city.
C12_Witness ==
    /\ pc = "order"
    /\ Len(categorical_levels["incident_category"]) >= 2
    /\ Len(categorical_levels["city"]) >= 1
    /\ Len(categorical_levels["state"]) >= 2
    /\ Len(feature_order) >= 21

-----------------------------------------------------------------------------
(* Noisy historical rows *)

\* The longest dataset of noisy rows.
MaxNoisyRows == 3

\* "2024-02-30" is no date; "maybe" is no flag; "two" is no number.
RowBadDate ==
    [incident_category |-> RawStr(Text_Fire), start_time |-> RawStr(<<50, 48, 50, 52, 45, 48, 50, 45, 51, 48>>),
     wind_mph |-> RawStr(<<32, 32>>), evacuation_order_issued |-> RawStr(<<84, 82, 85, 69, 32>>),
     hospital_diversion_flag |-> RawStr(<<109, 97, 121, 98, 101>>),
     firetrucks_dispatched_engines |-> RawStr(<<50>>), ambulances_dispatched |-> RawStr(<<116, 119, 111>>)]
\* A short line: every field after the first is None.
RowShort ==
    [incident_category |-> RawStr(Text_Flood), start_time |-> RawNone,
     population_affected_est |-> RawNone, evacuation_order_issued |-> RawNone,
     firetrucks_dispatched_engines |-> RawNone, ambulances_dispatched |-> RawNone]
\* "yesterday" is no time; "12abc" is no number; "y" and " 1 " are flags.
RowWords ==
    [incident_category |-> RawStr(Text_Fire), start_time |-> RawStr(<<121, 101, 115, 116, 101, 114, 100, 97, 121>>),
     population_affected_est |-> RawStr(<<49, 50, 97, 98, 99>>), evacuation_order_issued |-> RawStr(<<121>>),
     hospital_diversion_flag |-> RawStr(<<32, 49, 32>>), severity_1_5 |-> RawStr(<<>>),
     firetrucks_dispatched_engines |-> RawStr(<<49>>), ambulances_dispatched |-> RawStr(<<49>>)]

NoisyRowPool == {RowNoisy, RowBadDate, RowShort, RowWords, RowFire3}

NoisyDatasets == UNION {[1..n -> NoisyRowPool] : n \in 1..MaxNoisyRows}

InitNoisy ==
    /\ rows \in NoisyDatasets
    /\ incident \in {IncidentFire, IncidentQuake}
    /\ k \in {1, MaxNoisyRows}
    /\ tie \in TieRules
    /\ ui = <<>>
    /\ EngineOnly
    /\ Idle

NextNoisy == KnnPredict \/ InitialPrediction

SpecNoisy == InitNoisy /\ [][NextNoisy]_vars

\* C13: a historical row with a null, empty or unparsable numeric, flag or
\* start-time field never makes vectorize_incident or knn_predict fail: in
\* the row's vector each such numeric or flag field is 0.0, an unparsable
\* start time gives hour 0.0 and month 0.0, and a flag is 1.0 only when its
\* trimmed, lower-cased text is one of 1, true, yes, y.
C13_MalformedFieldsCountAsZero ==
    pc \in {"returned", "answered"} =>
        /\ Returned
        /\ \A i \in 1..Len(rows) :
               LET row == rows[i]
                   vector == kn[1].X[i]
                   null(f) == f \notin DOMAIN row \/ row[f].k = "none"
                   malformed(f) == null(f) \/ row[f].s = <<>> \/ ~FloatOfText(row[f].s).ok
                   flagged(f) == /\ ~null(f)
                                 /\ Lower(Strip(row[f].s)) \in
                                        {<<49>>, <<116, 114, 117, 101>>, <<121, 101, 115>>, <<121>>}
                   timeless == \/ null("start_time") \/ row["start_time"].s = <<>>
                               \/ ~FromIsoFormat(ReplaceZ(row["start_time"].s)).ok
               IN  /\ Len(vector) = Len(feature_order)
                   /\ \A c \in 1..Len(NUMERIC_FEATURES) :
                          LET f == NUMERIC_FEATURES[c]
                          IN  IF f \in {"evacuation_order_issued", "hospital_diversion_flag"}
                              THEN vector[c] = (IF flagged(f) THEN One ELSE Zero)
                              ELSE IF f \in {"start_hour", "start_month"}
                              THEN timeless => vector[c] = Zero
                              ELSE malformed(f) => vector[c] = Zero

\* A prediction came back from a dataset with an unparsable number, an
\* unparsable flag and an unparsable start time.
C13_Witness ==
    /\ pc = "returned" /\ Returned
    /\ \E i \in 1..Len(rows) : rows[i] = RowBadDate
    /\ \E i \in 1..Len(rows) : rows[i] = RowWords /\ kn[1].X[i][3] = Zero /\ kn[1].X[i][12] = One
    /\ \E i \in 1..Len(rows) : rows[i] = RowShort

-----------------------------------------------------------------------------
(* knn_predict called with one min_pool, then with another *)

\* The longest dataset of these calls.
MaxPoolRows == 3

PoolDatasets == UNION {[1..n -> DetRowPool] : n \in 0..MaxPoolRows}

\* min_pool: below, at and above the dataset sizes, and the default.
MinPoolValues == {0, 2, MaxPoolRows + 1, DefaultMinPool}

\* knn_predict(incident, rows, k, min_pool)
PoolFirst ==
    /\ pc = "start"
    /\ pc' = "called"
    /\ KnnCall(incident, rows, k)
    /\ first' = <<result', [min_pool |-> min_pool]>>
    /\ UNCHANGED <<rows, incident, k, tie, vec, response, calls, ui, made>>
    /\ UNCHANGED <<city_arg, inferred, min_pool, seen, linearVars, dispatchVars>>

\* The caller picks another min_pool for its next call.
PoolChange ==
    /\ pc = "called"
    /\ pc' = "changed"
    /\ min_pool' \in MinPoolValues \ {min_pool}
    /\ UNCHANGED <<rows, incident, k, tie, query, categorical_levels, feature_order, vec,
                   kn, result, response, first, calls, ui, made>>
    /\ UNCHANGED <<city_arg, inferred, seen, linearVars, dispatchVars>>

\* knn_predict(incident, rows, k, min_pool), min_pool being the other value.
PoolAgain ==
    /\ pc = "changed"
    /\ pc' = "again"
    /\ KnnCall(incident, rows, k)
    /\ UNCHANGED <<rows, incident, k, tie, vec, response, first, calls, ui, made>>
    /\ UNCHANGED <<city_arg, inferred, min_pool, seen, linearVars, dispatchVars>>

InitPool ==
    /\ rows \in PoolDatasets
    /\ incident \in {IncidentFire, IncidentQuake}
    /\ k \in {1, 2}
    /\ tie \in TieRules
    /\ min_pool \in MinPoolValues
    /\ ui = <<>>
    /\ city_arg = <<>>
    /\ NoModel
    /\ NoDatabase
    /\ Idle

NextPool == PoolFirst \/ PoolChange \/ PoolAgain

SpecPool == InitPool /\ [][NextPool]_vars

-----------------------------------------------------------------------------
(* Several predictions on the dataset that load_prediction_rows caches *)

\* The most calls made on the cached dataset.
MaxSharedCalls == 3

\* The cached dataset: empty, or up to two rows.
SharedDatasets ==
    {<<>>} \cup {<<a>> : a \in DetRowPool \cup {RowUnbounded}}
        \cup {<<a, b>> : a, b \in DetRowPool \cup {RowUnbounded}}

\* One call knn_predict(q, rows, kk) on the cached list: the list and the
\* query are afterwards what the call left of them.
SharedCall ==
    /\ Len(seen) < MaxSharedCalls
    /\ pc' = "returned"
    /\ \E q \in {IncidentFire, IncidentQuake}, kk \in {1, OtherK} :
           /\ KnnCall(q, rows, kk)
           /\ k' = kk
           /\ rows' = KnnInputsAfter(q, rows).rows
           /\ incident' = KnnInputsAfter(q, rows).query
           /\ seen' = Append(seen, [rows |-> rows, query |-> q, rows_after |-> rows',
                                    query_after |-> incident', status |-> result'.status])
    /\ UNCHANGED <<tie, vec, response, first, calls, ui, made>>
    /\ UNCHANGED <<city_arg, inferred, min_pool, linearVars, dispatchVars>>

InitShared ==
    /\ rows \in SharedDatasets
    /\ incident = IncidentFire
    /\ k = OtherK
    /\ tie \in TieRules
    /\ ui = <<>>
    /\ EngineOnly
    /\ Idle

NextShared == SharedCall

SpecShared == InitShared /\ [][NextShared]_vars

-----------------------------------------------------------------------------
(* The linear model: ResourceModel.predict *)

\* np.dot(vector, row): the sum of the products, IEEE arithmetic.
Dot(vector, row) == FSum([i \in 1..Len(vector) |-> FMul(vector[i], row[i])])

\* ResourceModel.predict(incident): the two targets, in TARGET_FIELDS order.
\*   predictions = np.dot(vector, np.array(coef).T) + np.array(intercept)
\*   float(max(predictions[t], 0.0))
predict(m, inc) ==
    LET vector == vectorize_incident(inc, m.feature_order, m.categorical_levels)
    IN  [t \in 1..Len(TARGET_FIELDS) |->
            PyMax(FAdd(Dot(vector, m.coef[t]), m.intercept[t]), 0)]

\* The rows a model's vocabulary is collected from by train_model.
TrainingRows == <<RowFire1, RowFlood>>

\* A coefficient row that is `weight` on population_affected_est (column 3)
\* and `other` on structures_threatened (column 6), 0.0 elsewhere.
CoefRow(n, weight, other) ==
    [i \in 1..n |-> IF i = 3 THEN weight ELSE IF i = 6 THEN other ELSE Zero]

\* Trained or loaded models: the vocabulary of TrainingRows with a few
\* coefficient rows and intercepts per target.
Models ==
    LET levels == collect_categorical_levels(TrainingRows)
        order == build_feature_order(levels)
        rowsOfCoef == {CoefRow(Len(order), w, o) :
                          w \in {Fin(-1), Zero, Fin(2)}, o \in {Zero, Fin(1)}}
    IN  {[feature_order |-> order, categorical_levels |-> levels,
          coef |-> <<a, b>>, intercept |-> <<c, d>>] :
            a \in rowsOfCoef, b \in rowsOfCoef, c \in {Fin(-3), Fin(2)}, d \in {Zero}}

\* prediction = model.predict(incident)
Predict ==
    /\ pc = "start"
    /\ pc' = "predicted"
    /\ predictions' = <<predict(model[1], incident)>>
    /\ UNCHANGED <<rows, incident, k, tie, query, categorical_levels, feature_order, vec,
                   kn, result, response, first, calls, ui, made>>
    /\ UNCHANGED <<city_arg, inferred, min_pool, seen, model, dispatchVars>>

InitLinear ==
    /\ model \in {<<m>> : m \in Models}
    /\ incident \in IncidentPool
    /\ rows = <<>>
    /\ k = 0
    /\ tie = "stable"
    /\ ui = <<>>
    /\ city_arg = <<>>
    /\ min_pool = DefaultMinPool
    /\ NoDatabase
    /\ Idle

NextLinear == Predict

SpecLinear == InitLinear /\ [][NextLinear]_vars

\* C17: ResourceModel.predict returns both targets as values >= 0 for every
\* incident, coefficient matrix and intercept: each is max(vector.coef +
\* intercept, 0) for its target.
C17_LinearPredictionIsNonNegative ==
    pc = "predicted" =>
        \A t \in 1..2 :
            LET raw == FAdd(Dot(vectorize_incident(incident, model[1].feature_order,
                                                    model[1].categorical_levels),
                                model[1].coef[t]),
                            model[1].intercept[t])
                out == predictions[1][t]
            IN  /\ out = Zero \/ FLess(Zero, out)
                /\ FLess(Zero, raw) => out = raw
                /\ FLess(raw, Zero) => out = Zero

-----------------------------------------------------------------------------
(* Properties of the neighborhood, under Spec *)

\* C18: among historical rows at equal distance from the query, the row with
\* the lower original position is ranked first (a stable sort), both in the
\* sorted order the k-neighborhood is cut from and in the explanation list.
C18_TiesKeepRowOrder ==
    kn # <<>> =>
        LET L == kn[1]
        IN  /\ \A p, q \in 1..Len(L.order) :
                   (p < q /\ L.dists[L.order[p]] = L.dists[L.order[q]]) =>
                       L.order[p] < L.order[q]
            /\ \A p, q \in 1..Len(L.idx) :
                   (p < q /\ L.dists[L.idx[p]] = L.dists[L.idx[q]]) => L.idx[p] < L.idx[q]
            /\ Returned =>
                   LET sim == result.value[1].similar_incidents_top5
                   IN  \A p, q \in 1..Len(sim) :
                           (p < q /\ sim[p].distance = sim[q].distance) =>
                               sim[p].row_index < sim[q].row_index

\* C19: knn_predict uses exactly min(max(k, 1), N) neighbors and they are
\* the nearest: the distances are the Euclidean distances between the query
\* vector and the row vectors under the one feature order built from the
\* dataset, the neighbors are distinct rows, and no row left out is strictly
\* closer to the query than a row taken.
C19_NeighborsAreTheNearest ==
    kn # <<>> =>
        LET L == kn[1]
            taken == {L.idx[p] : p \in 1..Len(L.idx)}
            n == IF k >= 1 THEN k ELSE 1
        IN  /\ Len(L.idx) = (IF n <= Len(rows) THEN n ELSE Len(rows))
            /\ Cardinality(taken) = Len(L.idx)
            /\ taken \subseteq 1..Len(rows)
            /\ \A i \in 1..Len(rows) :
                   /\ Len(L.X[i]) = Len(feature_order)
                   /\ L.dists[i] = FSqrt(SumSquares(L.qv, L.X[i], 1))
            /\ Len(L.qv) = Len(feature_order)
            /\ \A i \in taken : \A j \in (1..Len(rows)) \ taken : ~FLess(L.dists[j], L.dists[i])
            /\ Returned => result.value[1].k_used = Len(L.idx)

\* Fewer rows were taken than the dataset has, the nearest row is not the
\* first of the dataset and a row left out is strictly farther than it.
C19_Witness ==
    /\ kn # <<>> /\ Returned
    /\ k = 2 /\ Len(kn[1].idx) = 2 /\ Len(rows) > 2
    /\ kn[1].idx[1] # 1
    /\ \E j \in 1..Len(rows) :
           /\ \A p \in 1..2 : kn[1].idx[p] # j
           /\ FLess(kn[1].dists[kn[1].idx[2]], kn[1].dists[j])

-----------------------------------------------------------------------------
(* The dispatch endpoint: dispatch_request, called by concurrent clients *)

(***************************************************************************)
(* Each client runs one dispatch_request at a time, as one request thread   *)
(* of the server does.  The tables hold what is committed.  A transaction   *)
(* (`with transaction.atomic()`) keeps its writes to itself until it        *)
(* commits; every statement reads what is committed at that moment plus     *)
(* the transaction's own writes (READ COMMITTED, the level Django leaves    *)
(* PostgreSQL at; ambulance_forecast.py reads the same log table from       *)
(* Postgres).  select_for_update() locks the rows it selects until the *)
(* transaction ends and waits while another transaction holds one of them;  *)
(* an UPDATE holds the row it writes in the same way.                       *)
(***************************************************************************)

\* The most dispatch_request calls made in one run.
MaxDispatches == 2

Clients == {1, 2}

\* No row is locked.
Unlocked == [unit |-> [u \in DOMAIN units |-> 0], request |-> [r \in DOMAIN requests |-> 0]]

\* A transaction's writes before it commits.
NoWrites == [assignments |-> {}, units |-> {}, logs |-> <<>>, request |-> <<>>]

\* A client between two calls.
IdleClient ==
    [pc |-> "idle", request_id |-> 0, unit_ids |-> <<>>, rr |-> <<>>,
     unit |-> <<>>, new_status |-> "",
     pending |-> NoWrites, during |-> {}, available |-> {}, history |-> <<>>]

\* The calls made so far, finished or not.
CallsMade(c) == Len(clients[c].history) + (IF clients[c].pc = "idle" THEN 0 ELSE 1)

RECURSIVE TotalCalls(_)
TotalCalls(cs) ==
    IF cs = {} THEN 0
    ELSE LET c == CHOOSE x \in cs : TRUE IN CallsMade(c) + TotalCalls(cs \ {c})

\* History kept for the properties: the calls in progress when client c's
\* call comes in, each named by its client and its number.
InProgress(c) == {<<d, CallsMade(d)>> : d \in {x \in DOMAIN clients : x # c /\ clients[x].pc # "idle"}}

\* History kept for the properties: the units AVAILABLE when a call comes in.
AvailableNow == {u \in DOMAIN units : units[u].status = "AVAILABLE"}

\* request_id of the URL: the requests that exist, and one that does not.
RequestIdInputs == {1, 2, 9}

\* payload["unit_ids"]
UnitIdInputs == {<<>>, <<1>>, <<2>>, <<1, 2>>, <<3>>, <<1, 1>>, <<7>>}

\* change_unit_status(unit, new_status): the unit as saved and the LogEntry
\* created, or nothing when the status is the same.
change_unit_status(unit, new_status) ==
    IF unit.status = new_status
    THEN [changed |-> FALSE, unit |-> unit, logs |-> <<>>]
    ELSE [changed |-> TRUE,
          unit |-> [unit EXCEPT !.status = new_status],
          logs |-> << [unit |-> unit.id, from_status |-> unit.status,
                       to_status |-> new_status] >>]

\* A filter(id__in=unit_ids) that locks no row.
select_unlocked(unit_ids) == {}

\* Unit.objects.select_for_update().filter(id__in=unit_ids): the rows locked.
select_for_update(unit_ids) == {u \in DOMAIN units : u \in Range(unit_ids)}

\* The rows filter(id__in=unit_ids) returns: each matching row once.
RECURSIVE UnitsWithIds(_, _)
UnitsWithIds(unit_ids, u) ==
    IF u > Len(units) THEN <<>>
    ELSE (IF u \in Range(unit_ids)
          THEN << [id |-> u, unit_type |-> units[u].unit_type, status |-> units[u].status] >>
          ELSE <<>>) \o UnitsWithIds(unit_ids, u + 1)

\* The log entries of a list of status changes, in order.
RECURSIVE FlatLogs(_, _)
FlatLogs(changes, i) ==
    IF i > Len(changes) THEN <<>> ELSE changes[i].logs \o FlatLogs(changes, i + 1)

\* The call of client c ends with this answer: its transaction, if any, is
\* over and its locks are released.
Answer(c, status, error) ==
    [IdleClient EXCEPT
        !.history = Append(clients[c].history,
                           [request_id |-> clients[c].request_id,
                            unit_ids |-> clients[c].unit_ids,
                            during |-> clients[c].during,
                            available |-> clients[c].available,
                            status |-> status, error |-> error])]

Release(c) ==
    [unit |-> [u \in DOMAIN row_locks.unit |->
                  IF row_locks.unit[u] = c THEN 0 ELSE row_locks.unit[u]],
     request |-> [r \in DOMAIN row_locks.request |->
                     IF row_locks.request[r] = c THEN 0 ELSE row_locks.request[r]]]

\* Lines 198-213: the body is read and the request row is fetched, outside
\* any transaction.
DispatchReceive(c) ==
    /\ clients[c].pc = "idle"
    /\ TotalCalls(DOMAIN clients) < MaxDispatches
    /\ \E request_id \in RequestIdInputs, unit_ids \in UnitIdInputs :
           \E call \in {[clients[c] EXCEPT !.request_id = request_id, !.unit_ids = unit_ids,
                                            !.during = InProgress(c),
                                            !.available = AvailableNow]} :
               clients' = [clients EXCEPT ![c] =
                   IF unit_ids = <<>>
                   THEN [IdleClient EXCEPT !.history =
                            Append(call.history,
                                   [request_id |-> request_id, unit_ids |-> unit_ids,
                                    during |-> call.during, available |-> call.available,
                                    status |-> 400, error |-> "unit_ids must be a non-empty list"])]
                   ELSE IF request_id \notin DOMAIN requests
                   THEN [IdleClient EXCEPT !.history =
                            Append(call.history,
                                   [request_id |-> request_id, unit_ids |-> unit_ids,
                                    during |-> call.during, available |-> call.available,
                                    status |-> 404, error |-> "Request not found"])]
                   ELSE [call EXCEPT
                            !.pc = "locking",
                            !.rr = << [id |-> request_id,
                                       unit_type |-> requests[request_id].unit_type,
                                       quantity |-> requests[request_id].quantity,
                                       status |-> requests[request_id].status] >>]]
    /\ UNCHANGED <<units, requests, assignment_rows, log_entries, row_locks>>
    /\ UNCHANGED <<engineVars, city_arg, inferred, min_pool, seen, linearVars>>

\* Lines 219-230: the answer of the checks, made for every unit before
\* anything is written; "" when the call passes them.
dispatch_checks(found, unit_ids, rr) ==
    IF Len(found) # Len(unit_ids) THEN "One or more unit_ids invalid"
    ELSE IF \E i \in 1..Len(found) : found[i].unit_type # rr.unit_type THEN "type mismatch"
    ELSE IF \E i \in 1..Len(found) : found[i].status # "AVAILABLE" THEN "not available"
    ELSE ""

\* The units written when the availability of each unit is checked just
\* before it is written: those before the first one that is not AVAILABLE.
units_written_before_rejection(found, error) ==
    IF error = "" THEN found
    ELSE IF error = "not available"
    THEN SubSeq(found, 1, Cardinality({i \in 1..Len(found) :
                              \A j \in 1..i : found[j].status = "AVAILABLE"}))
    ELSE <<>>

\* Lines 232-238: the units the two writing loops reach: all of them once the
\* checks have passed, none when a check has returned.
units_written(found, error) == IF error = "" THEN found ELSE <<>>

\* Lines 215-238: the transaction begins; the units are selected for update,
\* which waits for their locks; the three checks; the assignments are
\* created and the units' statuses changed.  A return inside the block ends
\* the transaction.
\* The rows are locked in one step: a call waiting for one row holds none
\* of the others, so the deadlock of two calls locking the same rows in
\* opposite orders is not represented.
\* A return inside the `with` block leaves it normally, so whatever the call
\* has written by then is committed with it.
DispatchLock(c) ==
    /\ clients[c].pc = "locking"
    /\ \A u \in select_for_update(clients[c].unit_ids) : row_locks.unit[u] \in {0, c}
    /\ \E found \in {UnitsWithIds(clients[c].unit_ids, 1)} :
       \E rr \in {clients[c].rr[1]} :
       \E error \in {dispatch_checks(found, clients[c].unit_ids, rr)} :
       \E written \in {units_written(found, error)} :
       \E changes \in {[i \in 1..Len(written) |-> change_unit_status(written[i], "ENROUTE")]} :
       \E writes \in {[assignments |-> {<<rr.id, written[i].id>> : i \in 1..Len(written)}
                                           \ assignment_rows,
                       units |-> {changes[i].unit : i \in {j \in 1..Len(written) :
                                                              changes[j].changed}},
                       logs |-> FlatLogs(changes, 1),
                       request |-> <<>>]} :
           IF error # ""
           THEN /\ clients' = [clients EXCEPT ![c] = Answer(c, 400, error)]
                /\ assignment_rows' = assignment_rows \cup writes.assignments
                /\ units' = [u \in DOMAIN units |->
                                IF \E x \in writes.units : x.id = u
                                THEN [unit_type |-> units[u].unit_type,
                                      status |-> (CHOOSE x \in writes.units : x.id = u).status]
                                ELSE units[u]]
                /\ log_entries' = log_entries \o writes.logs
                /\ UNCHANGED row_locks
           ELSE /\ row_locks' = [row_locks EXCEPT !.unit =
                                    [u \in DOMAIN row_locks.unit |->
                                        IF u \in select_for_update(clients[c].unit_ids)
                                        THEN c ELSE row_locks.unit[u]]]
                /\ clients' = [clients EXCEPT ![c] =
                       [clients[c] EXCEPT !.pc = "counting", !.pending = writes]]
                /\ UNCHANGED <<units, assignment_rows, log_entries>>
    /\ UNCHANGED requests
    /\ UNCHANGED <<engineVars, city_arg, inferred, min_pool, seen, linearVars>>

\* Lines 240-244: rr.assignments.count() sees the committed assignments and
\* the transaction's own; rr.status is set on the object.
DispatchCount(c) ==
    /\ clients[c].pc = "counting"
    /\ \E rr \in {clients[c].rr[1]} :
       \E assigned \in {Cardinality({a \in assignment_rows \cup clients[c].pending.assignments :
                                        a[1] = rr.id})} :
           clients' = [clients EXCEPT ![c] =
               [clients[c] EXCEPT
                   !.pc = "saving",
                   !.rr = << [rr EXCEPT !.status = IF assigned >= rr.quantity
                                                  THEN "COMPLETED" ELSE "PARTIAL"] >>]]
    /\ UNCHANGED <<units, requests, assignment_rows, log_entries, row_locks>>
    /\ UNCHANGED <<engineVars, city_arg, inferred, min_pool, seen, linearVars>>

\* Line 246: rr.save() writes every field of the object; the UPDATE waits
\* while another transaction holds the row.
DispatchSave(c) ==
    /\ clients[c].pc = "saving"
    /\ row_locks.request[clients[c].rr[1].id] \in {0, c}
    /\ row_locks' = [row_locks EXCEPT !.request[clients[c].rr[1].id] = c]
    /\ clients' = [clients EXCEPT ![c] =
           [clients[c] EXCEPT !.pc = "committing", !.pending.request = clients[c].rr]]
    /\ UNCHANGED <<units, requests, assignment_rows, log_entries>>
    /\ UNCHANGED <<engineVars, city_arg, inferred, min_pool, seen, linearVars>>

\* The end of the `with` block and line 249: the transaction commits, its
\* locks are released and the request is answered.
DispatchCommit(c) ==
    /\ clients[c].pc = "committing"
    /\ \E w \in {clients[c].pending} :
           /\ assignment_rows' = assignment_rows \cup w.assignments
           /\ units' = [u \in DOMAIN units |->
                           IF \E x \in w.units : x.id = u
                           THEN [unit_type |-> units[u].unit_type,
                                 status |-> (CHOOSE x \in w.units : x.id = u).status]
                           ELSE units[u]]
           /\ log_entries' = log_entries \o w.logs
           /\ requests' = [requests EXCEPT ![w.request[1].id] =
                              [unit_type |-> w.request[1].unit_type,
                               quantity |-> w.request[1].quantity,
                               status |-> w.request[1].status]]
    /\ row_locks' = Release(c)
    /\ clients' = [clients EXCEPT ![c] = Answer(c, 200, "")]
    /\ UNCHANGED <<engineVars, city_arg, inferred, min_pool, seen, linearVars>>

\* The database before the calls: two ambulances and an engine, two requests
\* for ambulances as create_request leaves them.
InitDispatch ==
    /\ units \in {<< [unit_type |-> "AMB", status |-> "AVAILABLE"],
                     [unit_type |-> "AMB", status |-> s],
                     [unit_type |-> "ENG", status |-> "AVAILABLE"] >> :
                      s \in {"AVAILABLE", "ON_SCENE"}}
    /\ requests \in {<< [unit_type |-> "AMB", quantity |-> q, status |-> "PENDING"],
                        [unit_type |-> "AMB", quantity |-> 1, status |-> "PENDING"] >> :
                         q \in {1, 2}}
    /\ assignment_rows = {}
    /\ log_entries = <<>>
    /\ row_locks = Unlocked
    /\ clients = [c \in Clients |-> IdleClient]
    /\ rows = <<>>
    /\ incident = IncidentFire
    /\ k = 0
    /\ tie = "stable"
    /\ ui = <<>>
    /\ city_arg = <<>>
    /\ min_pool = DefaultMinPool
    /\ NoModel
    /\ Idle

NextDispatch ==
    \E c \in Clients :
        \/ DispatchReceive(c)
        \/ DispatchLock(c)
        \/ DispatchCount(c)
        \/ DispatchSave(c)
        \/ DispatchCommit(c)

SpecDispatch == InitDispatch /\ [][NextDispatch]_vars

\* The finished calls, each named by its client and its number.
FinishedCalls == {x \in (DOMAIN clients) \X (1..MaxDispatches) : x[2] <= Len(clients[x[1]].history)}

CallRecord(x) == clients[x[1]].history[x[2]]

\* Two calls ran concurrently: one came in while the other was in progress.
RanConcurrently(x, y) ==
    /\ x[1] # y[1]
    /\ (y \in CallRecord(x).during \/ x \in CallRecord(y).during)

\* A call that would have dispatched its units had it run alone: the request
\* exists and every unit named exists, is named once, is of the request's
\* type and was AVAILABLE when the call came in.
Dispatchable(h) ==
    /\ h.request_id \in DOMAIN requests
    /\ h.unit_ids # <<>>
    /\ Range(h.unit_ids) \subseteq DOMAIN units
    /\ Cardinality(Range(h.unit_ids)) = Len(h.unit_ids)
    /\ \A u \in Range(h.unit_ids) : units[u].unit_type = requests[h.request_id].unit_type
    /\ Range(h.unit_ids) \subseteq h.available

\* The committed log entries of unit u going from AVAILABLE to ENROUTE.
DispatchLogs(u) ==
    {n \in 1..Len(log_entries) :
        log_entries[n] = [unit |-> u, from_status |-> "AVAILABLE", to_status |-> "ENROUTE"]}

\* Two finished calls that ran concurrently, each dispatchable alone, and a
\* unit both name.
Contested ==
    {<<x, y, u>> \in FinishedCalls \X FinishedCalls \X DOMAIN units :
        /\ RanConcurrently(x, y)
        /\ Dispatchable(CallRecord(x)) /\ Dispatchable(CallRecord(y))
        /\ u \in Range(CallRecord(x).unit_ids) \cap Range(CallRecord(y).unit_ids)}

\* C16: when two dispatch_request calls naming the same AVAILABLE unit run
\* concurrently, the unit goes from AVAILABLE to ENROUTE once; one call is
\* answered 200 and the other 400 "not available", and the only assignment
\* of the unit is the one to the request of the call that succeeded.
C16_OneConcurrentDispatchWins ==
    \A t \in Contested :
        /\ Cardinality(DispatchLogs(t[3])) = 1
        /\ \E w \in {t[1], t[2]} : \E l \in {t[1], t[2]} \ {w} :
               /\ CallRecord(w).status = 200
               /\ CallRecord(l).status = 400
               /\ CallRecord(l).error = "not available"
               /\ {a \in assignment_rows : a[2] = t[3]} = {<<CallRecord(w).request_id, t[3]>>}

\* Two calls for different requests contested a unit; the one that lost named
\* a second unit as well, which stays AVAILABLE.
C16_Witness ==
    \E t \in Contested :
        /\ CallRecord(t[1]).status = 200
        /\ CallRecord(t[2]).error = "not available"
        /\ CallRecord(t[1]).request_id # CallRecord(t[2]).request_id
        /\ \E u \in Range(CallRecord(t[2]).unit_ids) : units[u].status = "AVAILABLE"

\* The requests some finished call dispatched units to.
DispatchedRequests ==
    {CallRecord(x).request_id : x \in {y \in FinishedCalls : CallRecord(y).status = 200}}

\* C20: in every state where no dispatch is in progress, a request that was
\* dispatched to is COMPLETED if the number of units assigned to it is at
\* least its quantity and PARTIAL otherwise, also after concurrent dispatches
\* of different units to the same request.
C20_StatusFollowsAssignmentCount ==
    (\A c \in DOMAIN clients : clients[c].pc = "idle") =>
        \A r \in DispatchedRequests :
            requests[r].status =
                IF Cardinality({a \in assignment_rows : a[1] = r}) >= requests[r].quantity
                THEN "COMPLETED" ELSE "PARTIAL"

-----------------------------------------------------------------------------
(* The status log: unit_set_status and hydrate_units beside dispatch_request *)

\* Unit.Status.choices
valid_statuses == {"AVAILABLE", "ENROUTE", "ON_SCENE", "TRANSPORTING"}

\* payload.get("status"): absent, not a status, or a status.
StatusInputs == {"", "LOST", "AVAILABLE", "ENROUTE", "ON_SCENE"}

\* unit_id of the URL: units of the start, one that exists only after
\* hydrate_units has created it, and none of the others.
UnitIdArgs == {1, 2, 7}

\* The units any call can name; every other unit stays as hydrate_units
\* created it.
Nameable == UnitIdArgs \cup UNION {Range(ids) : ids \in UnitIdInputs}

\* The names hydrate_units draws.
HydrateNames == 10

\* The most units in the table: hydrate_units runs while the table has room
\* for every name it draws.
MaxUnits == 13

\* Lines 106-126: the body is read, the unit is fetched and the status is
\* checked, outside any transaction and with no lock.
SetStatusReceive(c) ==
    /\ clients[c].pc = "idle"
    /\ TotalCalls(DOMAIN clients) < MaxDispatches
    /\ \E unit_id \in UnitIdArgs, new_status \in StatusInputs :
           \E call \in {[clients[c] EXCEPT !.unit_ids = <<unit_id>>, !.new_status = new_status]} :
               clients' = [clients EXCEPT ![c] =
                   IF new_status = ""
                   THEN [IdleClient EXCEPT !.history =
                            Append(call.history,
                                   [request_id |-> 0, unit_ids |-> <<unit_id>>,
                                    during |-> {}, available |-> {},
                                    status |-> 400, error |-> "Missing 'status'"])]
                   ELSE IF unit_id \notin DOMAIN units
                   THEN [IdleClient EXCEPT !.history =
                            Append(call.history,
                                   [request_id |-> 0, unit_ids |-> <<unit_id>>,
                                    during |-> {}, available |-> {},
                                    status |-> 404, error |-> "Unit not found"])]
                   ELSE IF new_status \notin valid_statuses
                   THEN [IdleClient EXCEPT !.history =
                            Append(call.history,
                                   [request_id |-> 0, unit_ids |-> <<unit_id>>,
                                    during |-> {}, available |-> {},
                                    status |-> 400, error |-> "Invalid status"])]
                   ELSE [call EXCEPT
                            !.pc = "setting",
                            !.unit = << [id |-> unit_id,
                                         unit_type |-> units[unit_id].unit_type,
                                         status |-> units[unit_id].status] >>]]
    /\ UNCHANGED <<units, requests, assignment_rows, log_entries, row_locks>>
    /\ UNCHANGED <<engineVars, city_arg, inferred, min_pool, seen, linearVars>>

\* Lines 128-132: change_unit_status on the object fetched before, in a
\* transaction of its own.  The UPDATE writes the status column only and
\* waits while another transaction holds the row; nothing is written when the
\* object already has the status.
SetStatusChange(c) ==
    /\ clients[c].pc = "setting"
    /\ \E change \in {change_unit_status(clients[c].unit[1], clients[c].new_status)} :
           /\ change.changed => row_locks.unit[change.unit.id] \in {0, c}
           /\ units' = IF change.changed
                       THEN [units EXCEPT ![change.unit.id].status = change.unit.status]
                       ELSE units
           /\ log_entries' = log_entries \o change.logs
    /\ clients' = [clients EXCEPT ![c] = Answer(c, 200, "")]
    /\ UNCHANGED <<requests, assignment_rows, row_locks>>
    /\ UNCHANGED <<engineVars, city_arg, inferred, min_pool, seen, linearVars>>

\* Command.handle: update_or_create for each name drawn.  hit are the
\* nameable units whose names are drawn, which become available ambulances
\* without change_unit_status; untouched are the other existing units drawn,
\* which are available ambulances already; the remaining names are created.
\* Each update waits for the lock of its row.
Hydrate ==
    /\ \E hit \in SUBSET (Nameable \cap DOMAIN units) :
       \E untouched \in 0..Cardinality(DOMAIN units \ Nameable) :
       \E created \in {HydrateNames - Cardinality(hit) - untouched} :
           /\ created >= 0
           /\ Len(units) + HydrateNames <= MaxUnits
           /\ \A u \in hit : row_locks.unit[u] = 0
           /\ units' = [u \in 1..(Len(units) + created) |->
                           IF u \in hit \/ u > Len(units)
                           THEN [unit_type |-> "AMB", status |-> "AVAILABLE"]
                           ELSE units[u]]
           /\ row_locks' = [row_locks EXCEPT !.unit =
                               [u \in 1..(Len(units) + created) |->
                                   IF u > Len(units) THEN 0 ELSE row_locks.unit[u]]]
    /\ UNCHANGED <<requests, assignment_rows, log_entries, clients>>
    /\ UNCHANGED <<engineVars, city_arg, inferred, min_pool, seen, linearVars>>

\* The database before the calls: an available ambulance, one on scene with
\* no log yet, an engine, and two requests for ambulances.
InitStatus ==
    /\ units = << [unit_type |-> "AMB", status |-> "AVAILABLE"],
                  [unit_type |-> "AMB", status |-> "ON_SCENE"],
                  [unit_type |-> "ENG", status |-> "AVAILABLE"] >>
    /\ requests = << [unit_type |-> "AMB", quantity |-> 2, status |-> "PENDING"],
                     [unit_type |-> "AMB", quantity |-> 1, status |-> "PENDING"] >>
    /\ assignment_rows = {}
    /\ log_entries = <<>>
    /\ row_locks = Unlocked
    /\ clients = [c \in Clients |-> IdleClient]
    /\ rows = <<>>
    /\ incident = IncidentFire
    /\ k = 0
    /\ tie = "stable"
    /\ ui = <<>>
    /\ city_arg = <<>>
    /\ min_pool = DefaultMinPool
    /\ NoModel
    /\ Idle

NextStatus ==
    \/ \E c \in Clients :
        \/ SetStatusReceive(c)
        \/ SetStatusChange(c)
        \/ DispatchReceive(c)
        \/ DispatchLock(c)
        \/ DispatchCount(c)
        \/ DispatchSave(c)
        \/ DispatchCommit(c)
    \/ Hydrate

SpecStatus == InitStatus /\ [][NextStatus]_vars

\* The log entries of unit u, in creation order.
LogOf(u) == SelectSeq(log_entries, LAMBDA e : e.unit = u)

\* C21: whenever no call is in progress, each unit's log entries in creation
\* order have from_status different from to_status, each entry's from_status
\* is the to_status of the entry before it, and the newest entry's to_status
\* is the unit's current status.
C21_LogFollowsEveryStatusChange ==
    (\A c \in DOMAIN clients : clients[c].pc = "idle") =>
        \A u \in DOMAIN units :
            /\ \A n \in 1..Len(LogOf(u)) : LogOf(u)[n].from_status # LogOf(u)[n].to_status
            /\ \A n \in 2..Len(LogOf(u)) : LogOf(u)[n].from_status = LogOf(u)[n - 1].to_status
            /\ LogOf(u) # <<>> => LogOf(u)[Len(LogOf(u))].to_status = units[u].status

\* Some finished call answered 200 dispatched unit u to request r.
Dispatched(r, u) ==
    \E x \in FinishedCalls :
        /\ CallRecord(x).status = 200
        /\ CallRecord(x).request_id = r
        /\ u \in Range(CallRecord(x).unit_ids)

\* C22: a rejected dispatch_request changes nothing: every assignment, every
\* log entry, every unit gone ENROUTE and every request no longer PENDING is
\* the work of a call that was answered 200.
C22_RejectedDispatchChangesNothing ==
    /\ \A a \in assignment_rows : Dispatched(a[1], a[2])
    /\ \A n \in 1..Len(log_entries) : \E r \in DOMAIN requests : Dispatched(r, log_entries[n].unit)
    /\ \A u \in DOMAIN units :
           units[u].status = "ENROUTE" => \E r \in DOMAIN requests : Dispatched(r, u)
    /\ \A r \in DOMAIN requests :
           requests[r].status # "PENDING" => \E u \in DOMAIN units : Dispatched(r, u)

\* A call naming an available ambulance and one on scene was rejected, and
\* the available one is as it was: AVAILABLE, unassigned and without a log.
C22_Witness ==
    \E x \in FinishedCalls :
        /\ CallRecord(x).unit_ids = <<1, 2>>
        /\ CallRecord(x).status = 400
        /\ CallRecord(x).error = "not available"
        /\ units[1].status = "AVAILABLE"
        /\ assignment_rows = {}
        /\ log_entries = <<>>
        /\ requests[CallRecord(x).request_id].status = "PENDING"

-----------------------------------------------------------------------------
(* The vocabulary and the values observed *)

\* The whitespace-trimmed value a record carries for a field; empty when the
\* key is missing or the value is null.
ObservedValue(row, field) ==
    IF field \in DOMAIN row /\ row[field].k # "none" THEN Strip(PyStr(row[field])) ELSE <<>>

\* C23: collect_categorical_levels puts into each feature's vocabulary
\* exactly the distinct trimmed non-empty values observed for the feature; a
\* record whose field is missing, null, empty or blank contributes no entry.
C23_VocabularyIsTheObservedValues ==
    pc \in {"levels", "order", "vectorized"} =>
        \A f \in 1..Len(CATEGORICAL_FEATURES) :
            Range(categorical_levels[CATEGORICAL_FEATURES[f]]) =
                {ObservedValue(rows[i], CATEGORICAL_FEATURES[f]) : i \in 1..Len(rows)} \ {<<>>}

-----------------------------------------------------------------------------
(* The weighted average in floating point *)

(***************************************************************************)
(* Above, the weighted average stands for the real number.  Here lines      *)
(* 265-278 are computed as the machine computes them: every operation       *)
(* gives the float nearest to its exact result, a tie going to the even     *)
(* mantissa (IEEE 754).  A float is m * 2^e with MantissaBits significant   *)
(* bits, where the build has 53; zero is m = 0.  Only finite non-negative   *)
(* values occur in this section.                                            *)
(***************************************************************************)

\* The significant bits of a float.
MantissaBits == 8

RECURSIVE Pow2(_)
Pow2(n) == IF n = 0 THEN 1 ELSE 2 * Pow2(n - 1)

RECURSIVE BitLen(_)
BitLen(n) == IF n = 0 THEN 0 ELSE 1 + BitLen(n \div 2)

BinZero == [m |-> 0, e |-> 0]

\* The float nearest to n * 2^e, for an integer n >= 0.
BinRound(n, e) ==
    IF n = 0 THEN BinZero
    ELSE IF BitLen(n) <= MantissaBits
    THEN [m |-> n * Pow2(MantissaBits - BitLen(n)), e |-> e - (MantissaBits - BitLen(n))]
    ELSE LET s == BitLen(n) - MantissaBits
             q == n \div Pow2(s)
             r == n % Pow2(s)
             up == r > Pow2(s - 1) \/ (r = Pow2(s - 1) /\ q % 2 = 1)
         IN  IF up /\ q + 1 = Pow2(MantissaBits)
             THEN [m |-> Pow2(MantissaBits - 1), e |-> e + s + 1]
             ELSE [m |-> IF up THEN q + 1 ELSE q, e |-> e + s]

\* float(n)
BinFromInt(n) == BinRound(n, 0)

\* a < b
BinLess(a, b) ==
    IF b.m = 0 THEN FALSE
    ELSE IF a.m = 0 THEN TRUE
    ELSE a.e < b.e \/ (a.e = b.e /\ a.m < b.m)

\* a + b: an operand below a quarter of the other's last place is absorbed.
BinAdd(a, b) ==
    IF a.m = 0 THEN b
    ELSE IF b.m = 0 THEN a
    ELSE LET hi == IF a.e >= b.e THEN a ELSE b
             lo == IF a.e >= b.e THEN b ELSE a
         IN  IF hi.e - lo.e > MantissaBits + 2 THEN hi
             ELSE BinRound(hi.m * Pow2(hi.e - lo.e) + lo.m, lo.e)

\* a * b
BinMul(a, b) == BinRound(a.m * b.m, a.e + b.e)

\* a / b for b > 0: the quotient to MantissaBits + 3 bits, its last bit set
\* when the division leaves a remainder.
BinDiv(a, b) ==
    IF a.m = 0 THEN BinZero
    ELSE LET num == a.m * Pow2(MantissaBits + 2)
         IN  BinRound(2 * (num \div b.m) + (IF num % b.m = 0 THEN 0 ELSE 1),
                      a.e - b.e - MantissaBits - 3)

\* The integer a float of value >= 1 stands for, or n itself when n is a
\* float already.
BinNearestInt(n) ==
    IF BitLen(n) <= MantissaBits THEN n ELSE BinFromInt(n).m * Pow2(BinFromInt(n).e)

\* np.sqrt of the float nearest to the integer n, n < 2^20: the root of
\* n * 4^j to 14 bits or more, its last bit set when the root is not exact.
BinSqrt(n) ==
    IF n = 0 THEN BinZero
    ELSE LET x == BinNearestInt(n)
             shift == (28 - BitLen(x)) - ((28 - BitLen(x)) % 2)
             scaled == x * Pow2(shift)
             root == Isqrt(scaled)
         IN  BinRound(2 * root + (IF root * root = scaled THEN 0 ELSE 1), 0 - (shift \div 2) - 1)

\* eps = 1e-6
BinEps == BinDiv(BinFromInt(1), BinFromInt(1000000))

\* np.sum(xs), and w @ ys with each product rounded before it is added: the
\* terms are added in row order.  With one selected row there is one term.
RECURSIVE BinSum(_)
BinSum(xs) ==
    IF xs = <<>> THEN BinZero
    ELSE BinAdd(BinSum(SubSeq(xs, 1, Len(xs) - 1)), xs[Len(xs)])

\* The float as the exact quotient KnnReturn takes.
BinToQuot(x) ==
    IF x.e >= 0 THEN [t |-> "fin", num |-> x.m * Pow2(x.e), den |-> 1]
    ELSE [t |-> "fin", num |-> x.m, den |-> Pow2(0 - x.e)]

\* The place of each distance among the distinct distances: the sort key.
DistanceKeys(dists) ==
    [i \in 1..Len(dists) |->
        Fin(Cardinality({dists[j] : j \in {x \in 1..Len(dists) : BinLess(dists[x], dists[i])}}))]

\* Rows with whole non-negative numbers in every numeric field and target.
RowNear ==
    [incident_category |-> RawStr(Text_Fire), population_affected_est |-> RawStr(<<50>>),
     firetrucks_dispatched_engines |-> RawStr(<<51>>), ambulances_dispatched |-> RawStr(<<51>>)]
RowTwin ==
    [incident_category |-> RawStr(Text_Flood), population_affected_est |-> RawStr(<<52>>),
     firetrucks_dispatched_engines |-> RawStr(<<51>>), ambulances_dispatched |-> RawStr(<<51>>)]

\* The longest dataset of this section.
MaxRoundRows == 2

RoundRowPool == {RowFire1, RowFlood, RowFire3, RowNear, RowTwin}

RoundDatasets == UNION {[1..n -> RoundRowPool] : n \in 1..MaxRoundRows}

RoundIncidents == {IncidentFire, IncidentQuake}

\* knn_predict(incident, rows, k) on a dataset that is not empty.
KnnPredictRounded ==
    /\ pc = "start"
    /\ pc' = "returned"
    /\ query' = incident
    /\ \E levels \in {KnnVocabulary(rows)} :
       \E columns \in {build_feature_order(levels)} :
       \E X \in {[i \in 1..Len(rows) |-> vectorize_incident(rows[i], columns, levels)]} :
       \E Y \in {[i \in 1..Len(rows) |->
                     [t \in 1..Len(TARGET_FIELDS) |->
                         parse_float(Get(rows[i], TARGET_FIELDS[t], RawNone))]]} :
       \E qv \in {vectorize_incident(incident, columns, levels)} :
       \E dists \in {[i \in 1..Len(rows) |-> BinSqrt(SumSquares(qv, X[i], 1).v)]} :
       \E order \in {argsort(DistanceKeys(dists), tie)} :
       \E idx \in {Neighborhood(order, k)} :
       \E d \in {[p \in 1..Len(idx) |-> dists[idx[p]]]} :
       \E w \in {[p \in 1..Len(idx) |-> BinDiv(BinFromInt(1), BinAdd(d[p], BinEps))]} :
       \E w_sum \in {BinSum(w)} :
       \E fallback \in {w_sum.m = 0} :
       \E pred \in {[t \in 1..Len(TARGET_FIELDS) |->
                       IF fallback
                       THEN BinDiv(BinSum([p \in 1..Len(idx) |-> BinFromInt(Y[idx[p]][t].v)]),
                                   BinFromInt(Len(idx)))
                       ELSE BinDiv(BinSum([p \in 1..Len(idx) |->
                                              BinMul(w[p], BinFromInt(Y[idx[p]][t].v))]),
                                   w_sum)]} :
       \E L \in {[X |-> X, qv |-> qv, Y |-> Y, dists |-> dists, order |-> order, idx |-> idx,
                   d |-> d, w |-> w, w_sum |-> w_sum, fallback |-> fallback,
                   pred |-> [t \in 1..Len(TARGET_FIELDS) |-> BinToQuot(pred[t])]]} :
           /\ categorical_levels' = levels
           /\ feature_order' = columns
           /\ kn' = <<L>>
           /\ result' = KnnReturn(incident, rows, L)
    /\ UNCHANGED <<rows, incident, k, tie, vec, response, first, calls, ui, made>>
    /\ UNCHANGED <<city_arg, inferred, min_pool, seen, linearVars, dispatchVars>>

InitRound ==
    /\ rows \in RoundDatasets
    /\ incident \in RoundIncidents
    /\ k \in {0, 1, MaxRoundRows}
    /\ tie \in TieRules
    /\ ui = <<>>
    /\ EngineOnly
    /\ Idle

NextRound == KnnPredictRounded

SpecRound == InitRound /\ [][NextRound]_vars

\* The targets of the selected neighbors, for target t.
SelectedTargets(t) == {kn[1].Y[kn[1].idx[p]][t].v : p \in 1..Len(kn[1].idx)}

Reported(t) == result.value[1].prediction[TARGET_FIELDS[t]]

\* C24: for each target, the reported prediction is at most the largest
\* selected neighbor target rounded up (and at least 0), at least the
\* smallest selected non-negative target, and exactly v when every selected
\* neighbor has the non-negative integer target v.
C24_PredictionWithinSelectedTargets ==
    (pc = "returned" /\ result.status = "ok") =>
        \A t \in 1..Len(TARGET_FIELDS) :
            /\ \A hi \in SelectedTargets(t) :
                   (\A v \in SelectedTargets(t) : v <= hi) => Reported(t) <= Max(0, hi)
            /\ \A lo \in {v \in SelectedTargets(t) : v >= 0} :
                   (\A v \in SelectedTargets(t) : v >= 0 => lo <= v) => Reported(t) >= lo
            /\ \A v \in SelectedTargets(t) :
                   (SelectedTargets(t) = {v} /\ v >= 0) => Reported(t) = v

-----------------------------------------------------------------------------
(* The low-supply forecast: forecast_ambulance_low *)

\* THRESHOLD = 2
THRESHOLD == 2

\* The clock when the forecast runs, in minutes, and the times a dispatch
\* was logged at: outside every window, inside the longer one, inside both.
ForecastNow == 200
DispatchTimes == {50, 100, 150}

\* The most ambulances and the most engines of the table.
ForecastAmbulances == 5
ForecastEngines == 1

WindowInputs == {60, 120}
HorizonInputs == {0, 60, 180}

\* hours = max(window_min / 60.0, 1e-6), in millionths of an hour.
WindowHours(window_min) == Max((window_min * 1000000) \div 60, 1)

\* Lines 65-78: SELECT COUNT(*) FROM incidents_logentry WHERE created_at >=
\* since AND from_status = 'AVAILABLE' AND to_status = 'ENROUTE'.
count_dispatches(since) ==
    Cardinality({n \in 1..Len(log_entries) :
                    /\ log_entries[n].created_at >= since
                    /\ log_entries[n].from_status = "AVAILABLE"
                    /\ log_entries[n].to_status = "ENROUTE"})

\* forecast_ambulance_low(window_min, horizon_min) at the time now: [low,
\* kind of message].  For the windows drawn, the three float operations of
\* line 89 give the exact quotient before int() cuts it.
forecast_ambulance_low(window_min, horizon_min, now) ==
    LET available_now == Cardinality({u \in DOMAIN units :
                             units[u].unit_type = "AMB" /\ units[u].status = "AVAILABLE"})
        count == count_dispatches(now - window_min)
        minutes_to_threshold ==
            ((available_now - THRESHOLD) * WindowHours(window_min) * 60) \div (count * 1000000)
    IN  IF available_now <= THRESHOLD THEN [low |-> TRUE, message |-> "LOW NOW"]
        ELSE IF count = 0 THEN [low |-> FALSE, message |-> "OK: no recent consumption"]
        ELSE IF minutes_to_threshold <= horizon_min
        THEN [low |-> TRUE, message |-> "FORECAST LOW"]
        ELSE [low |-> FALSE, message |-> "OK"]

\* One call of forecast_ambulance_low by the only client.
Forecast ==
    /\ clients[1].pc = "idle"
    /\ clients' = [clients EXCEPT ![1] =
           [clients[1] EXCEPT
               !.pc = "forecast",
               !.answer = forecast_ambulance_low(clients[1].window_min,
                                                 clients[1].horizon_min, clients[1].now)]]
    /\ UNCHANGED <<units, requests, assignment_rows, log_entries, row_locks>>
    /\ UNCHANGED <<engineVars, city_arg, inferred, min_pool, seen, linearVars>>

\* The tables as dispatches leave them: each unit is AVAILABLE with no log
\* entry, or ENROUTE with the entry of its dispatch; the entries are in the
\* order of their times.
RECURSIVE DispatchLog(_, _)
DispatchLog(times, t) ==
    IF t > ForecastNow THEN <<>>
    ELSE [u \in 1..Cardinality({x \in DOMAIN times : times[x] = t}) |->
             [unit |-> CHOOSE x \in DOMAIN times :
                           /\ times[x] = t
                           /\ Cardinality({y \in DOMAIN times : times[y] = t /\ y < x}) = u - 1,
              from_status |-> "AVAILABLE", to_status |-> "ENROUTE", created_at |-> t]]
         \o DispatchLog(times, t + 50)

InitForecast ==
    /\ \E times \in [1..(ForecastAmbulances + ForecastEngines) -> DispatchTimes \cup {0}] :
           /\ units = [u \in DOMAIN times |->
                          [unit_type |-> IF u <= ForecastAmbulances THEN "AMB" ELSE "ENG",
                           status |-> IF times[u] = 0 THEN "AVAILABLE" ELSE "ENROUTE"]]
           /\ log_entries = DispatchLog(times, 50)
    /\ requests = <<>>
    /\ assignment_rows = {}
    /\ row_locks = Unlocked
    /\ clients \in {<< [pc |-> "idle", window_min |-> w, horizon_min |-> h, now |-> ForecastNow,
                       answer |-> <<>>] >> : w \in WindowInputs, h \in HorizonInputs}
    /\ rows = <<>>
    /\ incident = IncidentFire
    /\ k = 0
    /\ tie = "stable"
    /\ ui = <<>>
    /\ city_arg = <<>>
    /\ min_pool = DefaultMinPool
    /\ NoModel
    /\ Idle

NextForecast == Forecast

SpecForecast == InitForecast /\ [][NextForecast]_vars

\* The ambulances AVAILABLE, and the AVAILABLE to ENROUTE transitions of
\* ambulances logged in the window.
AmbulancesAvailable ==
    Cardinality({u \in DOMAIN units : units[u].unit_type = "AMB" /\ units[u].status = "AVAILABLE"})

AmbulanceDispatchesInWindow ==
    Cardinality({n \in 1..Len(log_entries) :
                    /\ log_entries[n].created_at >= clients[1].now - clients[1].window_min
                    /\ log_entries[n].from_status = "AVAILABLE"
                    /\ log_entries[n].to_status = "ENROUTE"
                    /\ units[log_entries[n].unit].unit_type = "AMB"})

\* C25: the forecast is low when at most 2 ambulances are AVAILABLE; else not
\* low when no ambulance went from AVAILABLE to ENROUTE in the window; else
\* low exactly when floor(((available - 2) / rate) * 60) <= horizon_min, for
\* rate the ambulance dispatches of the window per hour.
C25_ForecastFollowsAmbulanceDispatches ==
    clients[1].pc = "forecast" =>
        clients[1].answer.low =
            IF AmbulancesAvailable <= 2 THEN TRUE
            ELSE IF AmbulanceDispatchesInWindow = 0 THEN FALSE
            ELSE ((AmbulancesAvailable - 2) * clients[1].window_min)
                     \div AmbulanceDispatchesInWindow <= clients[1].horizon_min

-----------------------------------------------------------------------------
(* The fields of the query built from the UI's inputs, under SpecQuery *)

\* The place of a numeric feature in every feature order.
NumericColumn(feature) == CHOOSE i \in 1..Len(NUMERIC_FEATURES) : NUMERIC_FEATURES[i] = feature

\* The query vectorized under the vocabulary of its own categorical fields.
QueryVector ==
    vectorize_incident(made.value[1],
                       build_feature_order(collect_categorical_levels(made.value)),
                       collect_categorical_levels(made.value))

\* C26: every query make_query_incident_from_ui builds carries the buildings
\* input in structures_threatened and structures_damaged and the population
\* input in population_affected_est, zero in every other numeric field but
\* the severity, and no start time; its start_hour and start_month columns
\* are 0.0.
C26_QueryCarriesOnlyTheUiInputs ==
    (pc = "made" /\ made.ok) =>
        /\ made.value[1].structures_threatened = RawFloat(ui.buildings_affected)
        /\ made.value[1].structures_damaged = RawFloat(ui.buildings_affected)
        /\ made.value[1].population_affected_est = RawFloat(ui.population_affected)
        /\ \A f \in {"duration_hours", "injuries_est", "fatalities_est", "acres_burned",
                     "wind_mph", "precip_inches", "temperature_f", "evacuation_order_issued",
                     "evac_population_est", "hospital_diversion_flag"} :
               /\ made.value[1][f] = RawFloat(Zero)
               /\ QueryVector[NumericColumn(f)] = Zero
        /\ made.value[1].start_time = RawNone
        /\ QueryVector[NumericColumn("start_hour")] = Zero
        /\ QueryVector[NumericColumn("start_month")] = Zero
        /\ QueryVector[NumericColumn("structures_damaged")] = ui.buildings_affected
        /\ QueryVector[NumericColumn("population_affected_est")] = ui.population_affected

\* A query was built from 12 buildings and 30000 people.
C26_Witness ==
    /\ pc = "made"
    /\ made.ok
    /\ ui.buildings_affected = Fin(12)
    /\ ui.population_affected = Fin(30000)
    /\ made.value[1].structures_damaged = RawFloat(Fin(12))
    /\ made.value[1].start_time = RawNone

====
